---- MODULE Spec2Model ----
(***************************************************************************)
(* A model of the wiresocks proxy front-end: the SOCKS front door (first   *)
(* byte peek), the SOCKS4 and SOCKS5 servers, the HTTP proxy server, the   *)
(* virtual-tunnel forwarding handler and the embedded SOCKS5 UDP relay.    *)
(*                                                                         *)
(* Bytes are naturals 0..255.  A client connection is the sequence of      *)
(* bytes the client sends followed by its close (a read past the last byte *)
(* returns EOF).  What the server writes to the client is the sequence     *)
(* cout of records [tag, bytes]: tag "reply" for a protocol reply and      *)
(* "data" for a tunnelled chunk.                                           *)
(***************************************************************************)
EXTENDS Integers, Sequences, FiniteSets, TLC

VARIABLES
    \* ---- one SOCKS client connection (front door, SOCKS4, SOCKS5) ----
    pc,         \* position of the connection's handler goroutine
    stream0,    \* everything the client sends on the connection (input)
    cin,        \* bytes not yet read from the net.Conn
    rbuf,       \* bytes held in SwitchConn's bufio.Reader, not yet consumed
    readLog,    \* bytes the protocol server / forwarder consumed, in order
    cout,       \* what has been written to the client, in order
    cfg,        \* server options: user connect handler installed, credentials
    served,     \* which protocol server the front door invoked
    peeked,     \* the byte the front door peeked (-1: none)
    req,        \* the parsed request
    sel,        \* SOCKS5: the method the server answered (-1: none)
    authTry,    \* SOCKS5: the user/password sub-negotiation that was read
    dial,       \* the destination dial: string handed to the dialer, outcome
    tin,        \* bytes delivered to the destination
    down,       \* number of chunks the destination has sent back
    ret,        \* what the connection handler returned
    \* ---- one run of virtualTun.handler (the forwarding handler) ----
    hpc,        \* position of the handler
    hnet,       \* req.Network
    cp,         \* the two copier goroutines: 1 client->tunnel, 2 tunnel->client
    done,       \* the done channel (buffered, capacity 1)
    recvd,      \* the values the handler received from done, in order
    hclosed,    \* connections the handler has closed
    hret,       \* what the handler returned
    \* ---- one client connection of the HTTP proxy ----
    httpPc,     \* position of the connection's goroutine
    httpIn,     \* what http.ReadRequest will return
    httpUser,   \* TRUE iff UserConnectHandle is installed
    httpOut,    \* responses written to the client, in order
    httpSent,   \* what has been written to the destination, in order
    httpDial,   \* the dial: [addr, result]
    httpRet,    \* what ServeConn returned
    httpBuffered, \* bytes after the headers that the request reader holds
    httpData,   \* bytes after the headers written to the destination
    \* ---- one UDP association served by embedHandleAssociate ----
    uPc,        \* position of the relay loop
    sourceAddr, \* the client's UDP address, once known
    wantSource, \* sourceAddr.String()
    targetAddr, \* the destination's UDP address, once known
    wantTarget, \* targetAddr.String()
    replyPrefix,\* the header put before datagrams sent back to the client
    udpClosed,  \* TRUE once the UDP endpoint is closed
    tcpEnded,   \* TRUE once a read on the control connection failed
    uLog,       \* the datagrams read so far and what was done with each
    uRet,       \* what embedHandleAssociate returned
    \* ---- one BIND request served by an embedded bind handler ----
    bPc,        \* position of the handler
    bProto,     \* 4 or 5: which server's embedHandleBind runs
    bDst,       \* the DST.ADDR of the request
    bListener,  \* the BIND listener: "none", "open" or "closed"
    bRemote,    \* the accepted connection: "none", "open" or "closed"
    bPeer,      \* the IP the accepted connection comes from
    bAcceptor,  \* the SOCKS5 accept goroutine: "none", "accepting", "conn", "error"
    bLog,       \* what the handler did, in order
    bRet,       \* what the handler returned
    \* ---- one run of WireSocks: device, handshake, probe, proxies ----
    wPc,        \* position of WireSocks.Run
    wDev,       \* the WireGuard device: "none", "configured", "up", "closed"
    wHs,        \* per peer, its last_handshake_time_sec in the device status
    wSeen,      \* the per-peer values the latest IpcGet returned
    wPolls,     \* rounds of waitHandshake that did not end the wait
    wProbes,    \* rounds of connectivityTest that did not end the probe
    wOpts,      \* which bind addresses are configured
    wFree,      \* which of the two addresses can be bound
    wSocksLn,   \* the SOCKS listener: "none", "bound", "closed"
    wHttpLn,    \* the HTTP listener: "none", "bound", "closed"
    wLoops,     \* the accept loops that were spawned
    wAccepted,  \* client connections accepted so far
    wLog,       \* the milestones of the run, in order
    wCancelled, \* WireSocks.Stop was called
    wErr,       \* the error Run ended with
    wEnd,       \* how Run ended: "none", "return" or "exit1"
    wCtx,       \* the context of the ProxyServer is cancelled
    wLoopPc,    \* per listener, where its accept loop stands
    wWatcher,   \* the goroutine of Start that waits for the context
    wHandlers,  \* forwarding handlers in flight
    wStops,     \* calls of WireSocks.Stop made so far
    \* ---- one configuration file ----
    gPc,        \* how far the file has come
    gVariant,   \* the ParseInterface of the build: "addr" or "prefix"
    gFile,      \* the file: its [Interface] and [Peer] sections (input)
    gConf,      \* the Configuration ParseConfig returned, as Run changes it
    gText,      \* what Configuration.String wrote, as sections
    gConf2,     \* the Configuration parsed from gText
    gIpc,       \* the peers' lines of the request to the device
    \* ---- one server's ListenAndServe, used on its own ----
    aPc,        \* where the accept loop stands
    aServer,    \* which server it is (input)
    aListener,  \* the server's listener: "open" or "closed"
    aCtx,       \* the server's context is done
    aConns,     \* connections accepted and handed to a goroutine
    aFailed,    \* Accept calls that returned an error
    aRet        \* what ListenAndServe returned

sVars == <<pc, stream0, cin, rbuf, readLog, cout, cfg, served, peeked, req,
           sel, authTry, dial, tin, down, ret>>

hVars == <<hpc, hnet, cp, done, recvd, hclosed, hret>>

pVars == <<httpPc, httpIn, httpUser, httpOut, httpSent, httpDial, httpRet,
           httpBuffered, httpData>>

uVars == <<uPc, sourceAddr, wantSource, targetAddr, wantTarget, replyPrefix,
           udpClosed, tcpEnded, uLog, uRet>>

bVars == <<bPc, bProto, bDst, bListener, bRemote, bPeer, bAcceptor, bLog, bRet>>

wVars == <<wPc, wDev, wHs, wSeen, wPolls, wProbes, wOpts, wFree, wSocksLn,
           wHttpLn, wLoops, wAccepted, wLog, wCancelled, wErr, wEnd, wCtx, wLoopPc, wWatcher,
           wHandlers, wStops>>

gVars == <<gPc, gVariant, gFile, gConf, gText, gConf2, gIpc>>

aVars == <<aPc, aServer, aListener, aCtx, aConns, aFailed, aRet>>

vars == <<sVars, hVars, pVars, uVars, bVars, wVars, gVars, aVars>>

\* What the steps of one sub-model leave alone: the other sub-models.
SocksFrame == UNCHANGED <<hVars, pVars, uVars, bVars, wVars, gVars, aVars>>
HandlerFrame == UNCHANGED <<sVars, pVars, uVars, bVars, wVars, gVars, aVars>>
HttpFrame == UNCHANGED <<sVars, hVars, uVars, bVars, wVars, gVars, aVars>>
RelayFrame == UNCHANGED <<sVars, hVars, pVars, bVars, wVars, gVars, aVars>>
BindFrame == UNCHANGED <<sVars, hVars, pVars, uVars, wVars, gVars, aVars>>
RunFrame == UNCHANGED <<sVars, hVars, pVars, uVars, bVars, gVars, aVars>>
ConfigFrame == UNCHANGED <<sVars, hVars, pVars, uVars, bVars, wVars, aVars>>
AcceptFrame == UNCHANGED <<sVars, hVars, pVars, uVars, bVars, wVars, gVars>>

----------------------------------------------------------------------------
(* Bounds of the model *)

MaxMethods == 2     \* longest METHODS list a client offers
MaxFill == 2        \* most bytes one bufio fill brings in on Peek
MaxDown == 1        \* chunks the destination sends back on a tunnel
MaxRounds == 2      \* loop iterations of one copier
MaxDatagrams == 3    \* datagrams one UDP association reads
MaxPeers == 2
MaxPolls == 3
MaxProbes == 2
MaxAccepts == 2
MaxBuffered == 2    \* most bytes after the headers a request read takes along
MaxStops == 2

----------------------------------------------------------------------------
(* Protocol constants *)

Socks4Version == 4
ReplyVersion == 0
ConnectCommand == 1
BindCommand == 2
AssociateCommand == 3
GrantedReply == 90
RejectedReply == 91

socks5Version == 5
noAuth == 0
gssapiAuth == 1
usernamePasswordAuth == 2
noAcceptable == 255
successReply == 0
serverFailure == 1
ruleFailure == 2
networkUnreachable == 3
hostUnreachable == 4
connectionRefused == 5
ttlExpired == 6
commandNotSupported == 7
addrTypeNotSupported == 8
ipv4Address == 1
domainName == 3
ipv6Address == 4

----------------------------------------------------------------------------
(* Sequences of bytes *)

Min(a, b) == IF a < b THEN a ELSE b

Drop(s, n) == SubSeq(s, n + 1, Len(s))

Take(s, n) == SubSeq(s, 1, Min(n, Len(s)))

\* Position of the first NUL at or after position i; 0 when the reader hits
\* EOF first (readUntilNull returns the read error).
readUntilNull(s, i) ==
    IF \E j \in i..Len(s) : s[j] = 0
    THEN CHOOSE j \in i..Len(s) : s[j] = 0 /\ \A k \in i..(j - 1) : s[k] # 0
    ELSE 0

\* net.IPv4(a, b, c, d): the 16-byte IPv4-in-IPv6 form.
NetIPv4(a, b, c, d) == <<0, 0, 0, 0, 0, 0, 0, 0, 0, 0, 255, 255, a, b, c, d>>

\* net.IP.String(): a 4-byte IP or a 16-byte IPv4-in-IPv6 IP prints as the
\* dotted quad of its four address bytes (kept as the four bytes); any other
\* 16-byte IP prints in IPv6 form; a nil IP prints as "<nil>".
IPString(ip) ==
    IF Len(ip) = 4 THEN [kind |-> "ip4", v |-> ip]
    ELSE IF Len(ip) = 16 /\ SubSeq(ip, 1, 12) = SubSeq(NetIPv4(0, 0, 0, 0), 1, 12)
         THEN [kind |-> "ip4", v |-> SubSeq(ip, 13, 16)]
    ELSE IF Len(ip) = 16 THEN [kind |-> "ip6", v |-> ip]
    ELSE [kind |-> "nil", v |-> <<>>]

\* net.JoinHostPort(host, port)
JoinHostPort(host, port) == [host |-> host, port |-> port]

NameHost(name) == [kind |-> "name", v |-> name]

NoDest == JoinHostPort([kind |-> "none", v |-> <<>>], 0)

NilAddr == [Name |-> <<>>, IP |-> <<>>, Port |-> 0]

NoReq == [proto |-> 0, Command |-> 0, DestAddr |-> NilAddr, User |-> <<>>]

Reply(bytes) == [tag |-> "reply", bytes |-> bytes]

Data(bytes) == [tag |-> "data", bytes |-> bytes]

----------------------------------------------------------------------------
(* SOCKS4: request parsing and replies *)

\* Address.String of socks4: the name when there is one, else the IP.
Address4String(a) ==
    IF Len(a.Name) > 0
    THEN JoinHostPort(NameHost(a.Name), a.Port)
    ELSE JoinHostPort(IPString(a.IP), a.Port)

\* Request.isSocks4a indexes the first four bytes of DestAddr.IP.
isSocks4a(r) ==
    /\ r.DestAddr.IP[1] = 0
    /\ r.DestAddr.IP[2] = 0
    /\ r.DestAddr.IP[3] = 0
    /\ r.DestAddr.IP[4] # 0

\* A failed parse: the error and the number of bytes read before it.
ParseErr(why, n) == [ok |-> FALSE, err |-> why, req |-> NoReq, n |-> n]

\* NewRequest on the bytes s the reader will deliver: the request and the
\* number of bytes consumed, or the error.
NewRequest(s) ==
    IF Len(s) < 2 THEN ParseErr("eof", Len(s))
    ELSE IF s[1] # Socks4Version THEN ParseErr("version", 2)
    ELSE IF Len(s) < 8 THEN ParseErr("eof", Len(s))
    ELSE
      LET port == s[3] * 256 + s[4]
          ip == NetIPv4(s[5], s[6], s[7], s[8])
          u == readUntilNull(s, 9)
      IN  IF u = 0 THEN ParseErr("eof", Len(s))
          ELSE
            LET r0 == [proto |-> Socks4Version, Command |-> s[2],
                       DestAddr |-> [Name |-> <<>>, IP |-> ip, Port |-> port],
                       User |-> SubSeq(s, 9, u - 1)]
            IN  IF isSocks4a(r0)
                THEN LET d == readUntilNull(s, u + 1)
                     IN  IF d = 0 THEN ParseErr("eof", Len(s))
                         ELSE [ok |-> TRUE, err |-> "nil",
                               req |-> [r0 EXCEPT !.DestAddr.Name =
                                                      SubSeq(s, u + 1, d - 1)],
                               n |-> d]
                ELSE [ok |-> TRUE, err |-> "nil", req |-> r0, n |-> u]

\* IP.To4(): the four address bytes of an IPv4 address.
To4(ip) == IF Len(ip) = 16 THEN SubSeq(ip, 13, 16) ELSE ip

\* WriteReply: the eight reply bytes; a nil address is 0.0.0.0:0.
WriteReply(reply, addr) ==
    LET ip == IF addr.IP = <<>> THEN NetIPv4(0, 0, 0, 0) ELSE addr.IP
    IN  Reply(<<ReplyVersion, reply, addr.Port \div 256, addr.Port % 256>>
              \o To4(ip))

\* The address the destination connection is bound to locally.
LocalAddr4 == [Name |-> <<>>, IP |-> NetIPv4(10, 0, 0, 2), Port |-> 4000]

----------------------------------------------------------------------------
(* SOCKS5: negotiation, authentication, request parsing and replies *)

\* readBytes at position i: a length byte, then that many bytes.
readBytes(s, i) ==
    IF i > Len(s) THEN [ok |-> FALSE, bytes |-> <<>>, next |-> Len(s) + 1]
    ELSE IF i + s[i] > Len(s)
         THEN [ok |-> FALSE, bytes |-> <<>>, next |-> Len(s) + 1]
    ELSE [ok |-> TRUE, bytes |-> SubSeq(s, i + 1, i + s[i]), next |-> i + s[i] + 1]

Contains(methods, m) == \E i \in 1..Len(methods) : methods[i] = m

\* A negotiation that prefers no-auth to username/password.
authenticateNoAuthFirst(methods, hasCreds) ==
    IF Contains(methods, gssapiAuth)
    THEN [answer |-> gssapiAuth, next |-> "closed", err |-> "gssapi_unsupported"]
    ELSE IF Contains(methods, noAuth)
    THEN [answer |-> noAuth, next |-> "s5_request", err |-> "nil"]
    ELSE IF hasCreds /\ Contains(methods, usernamePasswordAuth)
    THEN [answer |-> usernamePasswordAuth, next |-> "s5_userpass", err |-> "nil"]
    ELSE [answer |-> noAcceptable, next |-> "closed", err |-> "no_supported_auth"]

\* A negotiation that selects username/password without looking at whether
\* credentials are configured.
authenticateAnyUserPass(methods, hasCreds) ==
    IF Contains(methods, gssapiAuth)
    THEN [answer |-> gssapiAuth, next |-> "closed", err |-> "gssapi_unsupported"]
    ELSE IF Contains(methods, usernamePasswordAuth)
    THEN [answer |-> usernamePasswordAuth, next |-> "s5_userpass", err |-> "nil"]
    ELSE IF Contains(methods, noAuth)
    THEN [answer |-> noAuth, next |-> "s5_request", err |-> "nil"]
    ELSE [answer |-> noAcceptable, next |-> "closed", err |-> "no_supported_auth"]

\* Server.authenticate after the methods are read: the method the server
\* answers and what follows.  GSSAPI first, then username/password when
\* credentials are configured, then no-auth, else no acceptable method.
authenticate(methods, hasCreds) ==
    IF Contains(methods, gssapiAuth)
    THEN [answer |-> gssapiAuth, next |-> "closed", err |-> "gssapi_unsupported"]
    ELSE IF hasCreds /\ Contains(methods, usernamePasswordAuth)
    THEN [answer |-> usernamePasswordAuth, next |-> "s5_userpass", err |-> "nil"]
    ELSE IF Contains(methods, noAuth)
    THEN [answer |-> noAuth, next |-> "s5_request", err |-> "nil"]
    ELSE [answer |-> noAcceptable, next |-> "closed", err |-> "no_supported_auth"]

\* The configured credential store: user "a" with password "p".
Credentials == [u \in {<<97>>} |-> <<112>>]

\* A store that accepts a known user with any password.
ValidUserOnly(user, password) == user \in DOMAIN Credentials

\* StaticCredentials.Valid
Valid(user, password) ==
    IF user \notin DOMAIN Credentials THEN FALSE
    ELSE Credentials[user] = password

\* readAddr at position i: ATYP, the address, the port.
readAddr(s, i) ==
    LET bad(why) == [ok |-> FALSE, err |-> why, addr |-> NilAddr,
                     next |-> IF why = "unrecognized_addr_type"
                              THEN i + 1 ELSE Len(s) + 1]
        withPort(a, j) ==
            IF j + 1 > Len(s) THEN bad("eof")
            ELSE [ok |-> TRUE, err |-> "nil",
                  addr |-> [a EXCEPT !.Port = s[j] * 256 + s[j + 1]],
                  next |-> j + 2]
    IN  IF i > Len(s) THEN bad("eof")
        ELSE IF s[i] = ipv4Address
             THEN IF i + 4 > Len(s) THEN bad("eof")
                  ELSE withPort([NilAddr EXCEPT !.IP = SubSeq(s, i + 1, i + 4)], i + 5)
        ELSE IF s[i] = ipv6Address
             THEN IF i + 16 > Len(s) THEN bad("eof")
                  ELSE withPort([NilAddr EXCEPT !.IP = SubSeq(s, i + 1, i + 16)], i + 17)
        ELSE IF s[i] = domainName
             THEN LET d == readBytes(s, i + 1)
                  IN  IF ~d.ok THEN bad("eof")
                      ELSE withPort([NilAddr EXCEPT !.Name = d.bytes], d.next)
        ELSE bad("unrecognized_addr_type")

\* address.String of socks5: the IP when there is one, else the name.
Address5String(a) ==
    IF Len(a.IP) > 0
    THEN JoinHostPort(IPString(a.IP), a.Port)
    ELSE JoinHostPort(NameHost(a.Name), a.Port)

\* writeAddr: ATYP, address, port; a nil address is IPv4 0.0.0.0:0.
writeAddr(a) ==
    LET port == <<a.Port \div 256, a.Port % 256>>
    IN  IF Len(a.IP) = 4 THEN <<ipv4Address>> \o a.IP \o port
        ELSE IF Len(a.IP) = 16 /\ IPString(a.IP).kind = "ip4"
             THEN <<ipv4Address>> \o To4(a.IP) \o port
        ELSE IF Len(a.IP) = 16 THEN <<ipv6Address>> \o a.IP \o port
        ELSE IF Len(a.Name) > 0
             THEN <<domainName, Len(a.Name)>> \o a.Name \o port
        ELSE <<ipv4Address, 0, 0, 0, 0, 0, 0>>

\* sendReply: VER, REP, RSV, then the address.
sendReply(resp, addr) == Reply(<<socks5Version, resp, 0>> \o writeAddr(addr))

\* The outcomes of a dial.
DialErrors == {"host_unreachable", "network_unreachable", "refused",
               "timeout", "other"}

DialOutcomes == {"ok"} \cup DialErrors

\* errToReply: the reply code of a dial error.
errToReply(e) ==
    CASE e = "host_unreachable" -> hostUnreachable
      [] e = "network_unreachable" -> networkUnreachable
      [] e = "refused" -> connectionRefused
      [] e = "timeout" -> ttlExpired
      [] OTHER -> serverFailure

LocalAddr5 == [Name |-> <<>>, IP |-> <<10, 0, 0, 2>>, Port |-> 4000]

----------------------------------------------------------------------------
(* The client streams the model explores *)

\* A length-prefixed field.
LP(b) == <<Len(b)>> \o b

MethodBytes == {noAuth, gssapiAuth, usernamePasswordAuth, 3}

MethodLists ==
    UNION {[1..n -> MethodBytes] : n \in 0..MaxMethods}

\* RFC 1929 sub-negotiations a client may send (or none).
AuthParts ==
    {<<>>}
    \cup {<<1>> \o LP(u) \o LP(pw) : u \in {<<97>>, <<98>>}, pw \in {<<112>>, <<113>>}}
    \cup {<<2>> \o LP(<<97>>) \o LP(<<112>>), <<1, 1, 97>>}

\* SOCKS5 requests: CONNECT to 1.2.3.4:80 and to "ex":80, BIND, UDP
\* ASSOCIATE, an unknown command, an unknown ATYP, a wrong version, nothing.
Requests5 ==
    { <<5, ConnectCommand, 0, ipv4Address, 1, 2, 3, 4, 0, 80>>,
      <<5, ConnectCommand, 0, domainName, 2, 101, 120, 0, 80>>,
      <<5, BindCommand, 0, ipv4Address, 1, 2, 3, 4, 0, 80>>,
      <<5, AssociateCommand, 0, ipv4Address, 0, 0, 0, 0, 0, 0>>,
      <<5, 9, 0, ipv4Address, 1, 2, 3, 4, 0, 80>>,
      <<5, ConnectCommand, 0, 7, 1, 2, 3, 4, 0, 80>>,
      <<4, ConnectCommand, 0>>,
      <<>> }

Payload == <<71>>

Streams5 ==
    { <<socks5Version>> \o LP(m) \o a \o r \o (IF r = <<>> THEN <<>> ELSE Payload) :
        m \in MethodLists, a \in AuthParts, r \in Requests5 }

\* SOCKS4 requests: VN, CMD, port 80, DSTIP, USERID, NUL, then either
\* nothing, a NUL-terminated host name "ex", or that followed by payload.
Streams4 ==
    { <<Socks4Version, c, 0, 80>> \o ip \o u \o <<0>> \o t :
        c \in {ConnectCommand, BindCommand, 3},
        ip \in {<<1, 2, 3, 4>>, <<0, 0, 0, 1>>, <<0, 0, 0, 0>>, <<0, 0, 1, 0>>},
        u \in {<<>>, <<117>>},
        t \in {<<>>, <<101, 120, 0>>, <<101, 120, 0>> \o Payload} }
    \cup { <<Socks4Version>>, <<Socks4Version, ConnectCommand, 0, 80, 1, 2>>,
           <<Socks4Version, ConnectCommand, 0, 80, 0, 0, 0, 1, 117>> }

Streams == Streams5 \cup Streams4 \cup { <<>>, <<71, 69, 84>> }

----------------------------------------------------------------------------
(* One SOCKS client connection *)

NoAuthTry == [state |-> "none", user |-> <<>>, pass |-> <<>>]

NoDial == [by |-> "none", dest |-> NoDest, result |-> "none"]

SocksIdle ==
    /\ pc = "idle" /\ stream0 = <<>> /\ cin = <<>> /\ rbuf = <<>>
    /\ readLog = <<>> /\ cout = <<>>
    /\ cfg = [userHandler |-> FALSE, creds |-> FALSE]
    /\ served = "none" /\ peeked = -1 /\ req = NoReq /\ sel = -1
    /\ authTry = NoAuthTry /\ dial = NoDial /\ tin = <<>> /\ down = 0
    /\ ret = "none"

SocksInit ==
    /\ pc = "accepted"
    /\ stream0 \in Streams
    /\ cin = stream0
    /\ rbuf = <<>>
    /\ readLog = <<>>
    /\ cout = <<>>
    /\ cfg \in [userHandler : BOOLEAN, creds : BOOLEAN]
    /\ served = "none"
    /\ peeked = -1
    /\ req = NoReq
    /\ sel = -1
    /\ authTry = NoAuthTry
    /\ dial = NoDial
    /\ tin = <<>>
    /\ down = 0
    /\ ret = "none"

\* The bytes a Read through the SwitchConn will deliver, in order.
Avail == rbuf \o cin

\* The reader consumes the next n bytes: first the buffered ones.
Consume(n) ==
    /\ readLog' = readLog \o Take(Avail, n)
    /\ rbuf' = Drop(rbuf, Min(n, Len(rbuf)))
    /\ cin' = IF n > Len(rbuf) THEN Drop(cin, Min(n - Len(rbuf), Len(cin))) ELSE cin

\* A peek that takes the byte out of the buffer.
PeekConsumes(fill) == Drop(fill, 1)

\* bufio.Reader.Peek(1) after a fill: what stays buffered for later reads.
PeekKeeps(fill) == fill

\* The protocol server for a first byte.
ProtocolOf(b) ==
    IF b = 5 THEN "socks5" ELSE IF b = 4 THEN "socks4" ELSE "none"

\* socks.Server.handleConnection: wrap the connection, peek one byte,
\* hand the SwitchConn to the protocol server.
HandleConnection ==
    /\ pc = "accepted"
    /\ IF cin = <<>>
       THEN /\ pc' = "closed"
            /\ ret' = "eof"
            /\ UNCHANGED <<cin, rbuf, peeked, served>>
       ELSE \E k \in 1..Min(Len(cin), MaxFill) :
            /\ rbuf' = PeekKeeps(Take(cin, k))
            /\ cin' = Drop(cin, k)
            /\ peeked' = cin[1]
            /\ served' = ProtocolOf(cin[1])
            /\ pc' = CASE ProtocolOf(cin[1]) = "socks5" -> "s5_serve"
                       [] ProtocolOf(cin[1]) = "socks4" -> "s4_serve"
                       [] OTHER -> "closed"
            /\ ret' = IF ProtocolOf(cin[1]) = "none"
                      THEN "unsupported_version" ELSE ret
    /\ UNCHANGED <<stream0, readLog, cout, cfg, req, sel, authTry, dial, tin, down>>
    /\ SocksFrame

\* socks4.Server.ServeConn: NewRequest, then the command switch; CONNECT
\* goes to the user connect handler when one is installed (no reply is
\* written on that path), else to the embedded handler, both of which dial.
S4ServeConn ==
    /\ pc = "s4_serve"
    /\ LET p == NewRequest(Avail)
       IN  /\ Consume(p.n)
           /\ req' = p.req
           /\ IF ~p.ok
              THEN pc' = "closed" /\ ret' = p.err /\ dial' = dial
              ELSE IF p.req.Command = ConnectCommand
              THEN /\ dial' = [by |-> IF cfg.userHandler THEN "vt" ELSE "s4",
                               dest |-> Address4String(p.req.DestAddr),
                               result |-> "none"]
                   /\ pc' = IF cfg.userHandler THEN "vt_dial" ELSE "s4_dial"
                   /\ ret' = ret
              ELSE IF p.req.Command = BindCommand
              THEN pc' = "s4_bind" /\ ret' = ret /\ dial' = dial
              ELSE pc' = "closed" /\ ret' = "unsupported_command" /\ dial' = dial
    /\ UNCHANGED <<stream0, cout, cfg, served, peeked, sel, authTry, tin, down>>
    /\ SocksFrame

\* socks4 embedHandleConnect once ProxyDial returns: RejectedReply on an
\* error, GrantedReply with the local address on success, then the tunnel.
S4EmbedDialed ==
    /\ pc = "s4_dial"
    /\ \E r \in DialOutcomes :
        /\ dial' = [dial EXCEPT !.result = r]
        /\ IF r = "ok"
           THEN /\ cout' = Append(cout, WriteReply(GrantedReply, LocalAddr4))
                /\ pc' = "tunnel"
                /\ ret' = ret
           ELSE /\ cout' = Append(cout, WriteReply(RejectedReply, NilAddr))
                /\ pc' = "closed"
                /\ ret' = r
    /\ UNCHANGED <<stream0, cin, rbuf, readLog, cfg, served, peeked, req, sel,
                   authTry, tin, down>>
    /\ SocksFrame

\* socks5.Server.ServeConn up to the end of authenticate's method selection:
\* read the version byte, read the methods, answer with the selected method.
S5ServeConn ==
    /\ pc = "s5_serve"
    /\ LET s == Avail
           m == readBytes(s, 2)
           a == authenticate(m.bytes, cfg.creds)
       IN  IF Len(s) < 1
           THEN /\ Consume(0)
                /\ pc' = "closed" /\ ret' = "eof"
                /\ UNCHANGED <<cout, sel>>
           ELSE IF s[1] # socks5Version
           THEN /\ Consume(1)
                /\ pc' = "closed" /\ ret' = "unsupported_version"
                /\ UNCHANGED <<cout, sel>>
           ELSE IF ~m.ok
           THEN /\ Consume(Len(s))
                /\ pc' = "closed" /\ ret' = "eof"
                /\ UNCHANGED <<cout, sel>>
           ELSE /\ Consume(m.next - 1)
                /\ cout' = Append(cout, Reply(<<socks5Version, a.answer>>))
                /\ sel' = a.answer
                /\ pc' = a.next
                /\ ret' = IF a.next = "closed" THEN a.err ELSE ret
    /\ UNCHANGED <<stream0, cfg, served, peeked, req, authTry, dial, tin, down>>
    /\ SocksFrame

\* socks5.Server.handleUsernamePasswordAuth: version 1, user name, password;
\* 01 00 when the credential store validates them, else 01 01 and an error.
S5UserPass ==
    /\ pc = "s5_userpass"
    /\ LET s == Avail
           u == readBytes(s, 2)
           pw == readBytes(s, u.next)
       IN  IF Len(s) < 1
           THEN /\ Consume(0)
                /\ authTry' = [NoAuthTry EXCEPT !.state = "short"]
                /\ pc' = "closed" /\ ret' = "eof" /\ cout' = cout
           ELSE IF s[1] # 1
           THEN /\ Consume(1)
                /\ authTry' = [NoAuthTry EXCEPT !.state = "bad_version"]
                /\ pc' = "closed" /\ ret' = "unsupported_auth_version"
                /\ cout' = cout
           ELSE IF ~u.ok \/ ~pw.ok
           THEN /\ Consume(Len(s))
                /\ authTry' = [NoAuthTry EXCEPT !.state = "short"]
                /\ pc' = "closed" /\ ret' = "eof" /\ cout' = cout
           ELSE /\ Consume(pw.next - 1)
                /\ authTry' = [state |-> "read", user |-> u.bytes, pass |-> pw.bytes]
                /\ IF Valid(u.bytes, pw.bytes)
                   THEN /\ cout' = Append(cout, Reply(<<1, 0>>))
                        /\ pc' = "s5_request" /\ ret' = ret
                   ELSE /\ cout' = Append(cout, Reply(<<1, 1>>))
                        /\ pc' = "closed" /\ ret' = "invalid_credentials"
    /\ UNCHANGED <<stream0, cfg, served, peeked, req, sel, dial, tin, down>>
    /\ SocksFrame

\* socks5.Server.handleRequest and handle: read VER CMD RSV and the address,
\* then dispatch.  handleConnect with a user connect handler installed sends
\* the success reply and calls the handler, which dials; without one the
\* embedded handler dials first.
S5HandleRequest ==
    /\ pc = "s5_request"
    /\ LET s == Avail
           a == readAddr(s, 4)
           r == [proto |-> socks5Version, Command |-> s[2], DestAddr |-> a.addr,
                 User |-> <<>>]
       IN  IF Len(s) < 3
           THEN /\ Consume(Len(s))
                /\ pc' = "closed" /\ ret' = "eof"
                /\ UNCHANGED <<cout, req, dial>>
           ELSE IF s[1] # socks5Version
           THEN /\ Consume(3)
                /\ pc' = "closed" /\ ret' = "unsupported_command_version"
                /\ UNCHANGED <<cout, req, dial>>
           ELSE IF ~a.ok
           THEN /\ Consume(a.next - 1)
                /\ cout' = IF a.err = "unrecognized_addr_type"
                           THEN Append(cout, sendReply(addrTypeNotSupported, NilAddr))
                           ELSE cout
                /\ pc' = "closed" /\ ret' = a.err
                /\ UNCHANGED <<req, dial>>
           ELSE /\ Consume(a.next - 1)
                /\ req' = r
                /\ IF r.Command = ConnectCommand /\ cfg.userHandler
                   THEN /\ cout' = Append(cout, sendReply(successReply, NilAddr))
                        /\ dial' = [by |-> "vt", dest |-> Address5String(a.addr),
                                    result |-> "none"]
                        /\ pc' = "vt_dial" /\ ret' = ret
                   ELSE IF r.Command = ConnectCommand
                   THEN /\ dial' = [by |-> "s5", dest |-> Address5String(a.addr),
                                    result |-> "none"]
                        /\ pc' = "s5_dial" /\ ret' = ret /\ cout' = cout
                   ELSE IF r.Command = BindCommand
                   THEN pc' = "s5_bind" /\ UNCHANGED <<cout, dial, ret>>
                   ELSE IF r.Command = AssociateCommand
                   THEN pc' = "s5_associate" /\ UNCHANGED <<cout, dial, ret>>
                   ELSE /\ cout' = Append(cout, sendReply(commandNotSupported, NilAddr))
                        /\ pc' = "closed" /\ ret' = "unsupported_command"
                        /\ dial' = dial
    /\ UNCHANGED <<stream0, cfg, served, peeked, sel, authTry, tin, down>>
    /\ SocksFrame

\* socks5 embedHandleConnect once ProxyDial returns: the mapped error reply,
\* or the success reply with the local address and then the tunnel.
S5EmbedDialed ==
    /\ pc = "s5_dial"
    /\ \E r \in DialOutcomes :
        /\ dial' = [dial EXCEPT !.result = r]
        /\ IF r = "ok"
           THEN /\ cout' = Append(cout, sendReply(successReply, LocalAddr5))
                /\ pc' = "tunnel"
                /\ ret' = ret
           ELSE /\ cout' = Append(cout, sendReply(errToReply(r), NilAddr))
                /\ pc' = "closed"
                /\ ret' = r
    /\ UNCHANGED <<stream0, cin, rbuf, readLog, cfg, served, peeked, req, sel,
                   authTry, tin, down>>
    /\ SocksFrame

\* virtualTun.handler as the user connect handler, once Tnet.Dial returns:
\* the dial error is returned to the server (nothing is written to the
\* client), or the two copiers start.
VtDialed ==
    /\ pc = "vt_dial"
    /\ \E r \in DialOutcomes :
        /\ dial' = [dial EXCEPT !.result = r]
        /\ pc' = IF r = "ok" THEN "tunnel" ELSE "closed"
        /\ ret' = IF r = "ok" THEN ret ELSE r
    /\ UNCHANGED <<stream0, cin, rbuf, readLog, cout, cfg, served, peeked, req,
                   sel, authTry, tin, down>>
    /\ SocksFrame

\* A copier moves the next chunk the client sent to the destination: a Read
\* through the SwitchConn returns the buffered bytes first.
TunnelUp ==
    /\ pc = "tunnel"
    /\ Avail # <<>>
    /\ LET n == IF rbuf # <<>> THEN Len(rbuf) ELSE Len(cin)
       IN  /\ tin' = tin \o Take(Avail, n)
           /\ Consume(n)
    /\ UNCHANGED <<pc, stream0, cout, cfg, served, peeked, req, sel, authTry,
                   dial, down, ret>>
    /\ SocksFrame

\* A copier writes a chunk the destination sent to the client.
TunnelDown ==
    /\ pc = "tunnel"
    /\ down < MaxDown
    /\ down' = down + 1
    /\ cout' = Append(cout, Data(<<200 + down>>))
    /\ UNCHANGED <<pc, stream0, cin, rbuf, readLog, cfg, served, peeked, req,
                   sel, authTry, dial, tin, ret>>
    /\ SocksFrame

\* The tunnel ends (a side closed) and the handler returns.
TunnelClose ==
    /\ pc = "tunnel"
    /\ pc' = "closed"
    /\ ret' = "nil"
    /\ UNCHANGED <<stream0, cin, rbuf, readLog, cout, cfg, served, peeked, req,
                   sel, authTry, dial, tin, down>>
    /\ SocksFrame

SocksNext ==
    \/ HandleConnection
    \/ S4ServeConn
    \/ S4EmbedDialed
    \/ S5ServeConn
    \/ S5UserPass
    \/ S5HandleRequest
    \/ S5EmbedDialed
    \/ VtDialed
    \/ TunnelUp
    \/ TunnelDown
    \/ TunnelClose


----------------------------------------------------------------------------
(* Properties of the SOCKS connection *)

InCout(m) == \E i \in 1..Len(cout) : cout[i] = m

\* A SOCKS4 request whose DSTIP is 0.0.0.x, x # 0, with a NUL-terminated
\* host name after the NUL-terminated USERID.
IsSocks4aStream(s) ==
    /\ Len(s) >= 9
    /\ s[1] = 4 /\ s[2] = 1
    /\ s[5] = 0 /\ s[6] = 0 /\ s[7] = 0 /\ s[8] # 0
    /\ readUntilNull(s, 9) # 0
    /\ readUntilNull(s, readUntilNull(s, 9) + 1) # 0

HostNameOf(s) ==
    SubSeq(s, readUntilNull(s, 9) + 1,
           readUntilNull(s, readUntilNull(s, 9) + 1) - 1)

\* C1: a SOCKS4 CONNECT whose DSTIP is 0.0.0.x (x # 0) is SOCKS4a: the
\* destination handed to the dialer is the host name that follows USERID,
\* with the request's port, never the address 0.0.0.x.
C1_Socks4aDialsHostName ==
    (IsSocks4aStream(stream0) /\ dial.by # "none")
        => /\ dial.dest.host = [kind |-> "name", v |-> HostNameOf(stream0)]
           /\ dial.dest.port = stream0[3] * 256 + stream0[4]

IsGranted4(m) ==
    /\ m.tag = "reply"
    /\ Len(m.bytes) = 8
    /\ m.bytes[1] = 0
    /\ m.bytes[2] = 90

\* C2: once the dial of a SOCKS4 CONNECT has succeeded the first thing
\* written to the client is the 8-byte reply 00 5A ..., ahead of any
\* tunnelled byte, with the embedded handler and with a user connect handler.
C2_Socks4GrantedBeforeData ==
    (served = "socks4" /\ req.Command = 1 /\ dial.result = "ok")
        => /\ Len(cout) >= 1
           /\ IsGranted4(cout[1])
           /\ \A i \in 2..Len(cout) : cout[i].tag = "data"

\* A SOCKS5 request reply (VER REP RSV ATYP ...) with the given code.
IsReply5(m, code) ==
    /\ m.tag = "reply"
    /\ Len(m.bytes) >= 4
    /\ m.bytes[1] = 5
    /\ m.bytes[2] = code
    /\ m.bytes[3] = 0

Replies5 == {i \in 1..Len(cout) : cout[i].tag = "reply" /\ Len(cout[i].bytes) >= 4}

DialErrorCode(e) ==
    IF e = "host_unreachable" THEN 4
    ELSE IF e = "network_unreachable" THEN 3
    ELSE IF e = "refused" THEN 5
    ELSE IF e = "timeout" THEN 6
    ELSE 1

\* C3: on a SOCKS5 CONNECT the success reply 00 is sent only if the dial
\* succeeded; a failed dial produces exactly one reply, carrying the code
\* mapped from the error, and no 00 reply.
C3_Socks5ConnectReplyMatchesDial ==
    (served = "socks5" /\ req.Command = 1 /\ dial.result # "none")
        => /\ (\E i \in Replies5 : IsReply5(cout[i], 0)) => dial.result = "ok"
           /\ dial.result \in DialErrors
                => /\ Cardinality(Replies5) = 1
                   /\ \A i \in Replies5 : IsReply5(cout[i], DialErrorCode(dial.result))

\* The methods the client offered, once the server has answered them.
Offered == {stream0[i] : i \in 3..(2 + stream0[2])}

\* No request was read: the server consumed the greeting and nothing else.
NoRequestRead ==
    /\ req = NoReq
    /\ dial = NoDial
    /\ pc \notin {"s5_request", "s5_dial", "s5_bind", "s5_associate", "vt_dial", "tunnel"}

\* C4: method negotiation has a fixed priority: GSSAPI offered is answered
\* 01 and the connection fails; else 02 when credentials are configured and
\* 02 is offered; else 00 when offered; else FF and the connection ends with
\* no request read.
C4_NegotiationPriority ==
    sel # -1 =>
        /\ cout[1] = [tag |-> "reply", bytes |-> <<5, sel>>]
        /\ sel = (IF 1 \in Offered THEN 1
                  ELSE IF cfg.creds /\ 2 \in Offered THEN 2
                  ELSE IF 0 \in Offered THEN 0
                  ELSE 255)
        /\ sel \in {1, 255} => (pc = "closed" /\ NoRequestRead /\ Len(cout) = 1
                                /\ Len(readLog) = 2 + stream0[2])

C4_Witness ==
    /\ sel = 2 /\ 0 \in Offered /\ 2 \in Offered /\ cfg.creds
    /\ pc = "s5_userpass"

\* C5 as stated: any list containing 02 with credentials configured selects
\* 02, whatever else it contains; else a list containing 00 selects 00; else
\* FF and close.
C5_Original ==
    sel # -1 =>
        sel = (IF cfg.creds /\ 2 \in Offered THEN 2
               ELSE IF 0 \in Offered THEN 0
               ELSE 255)

\* C5 amended: for any list that does not contain 01 (GSSAPI), a list
\* containing 02 with credentials configured selects 02; else a list
\* containing 00 selects 00; else the server replies FF and closes.
C5_SelectionWithoutGssapi ==
    (sel # -1 /\ 1 \notin Offered) =>
        /\ (cfg.creds /\ 2 \in Offered) => sel = 2
        /\ (~(cfg.creds /\ 2 \in Offered) /\ 0 \in Offered) => sel = 0
        /\ (~(cfg.creds /\ 2 \in Offered) /\ 0 \notin Offered)
               => (sel = 255 /\ pc = "closed")

\* 02 listed after 00, credentials configured: 02 is selected.
C5_Witness ==
    /\ sel = 2 /\ cfg.creds /\ stream0[2] = 2 /\ stream0[3] = 0 /\ stream0[4] = 2
    /\ cout # <<>>

\* C6: after username/password was selected and the sub-negotiation read,
\* the reply is 01 00 exactly when the store holds the user with that
\* password and 01 01 otherwise; after 01 01, or a sub-negotiation version
\* other than 1, the connection is closed and no request is read or
\* dispatched.
C6_UserPassReply ==
    /\ authTry.state = "read" =>
          /\ sel = 2
          /\ Len(cout) >= 2
          /\ IF authTry.user = <<97>> /\ authTry.pass = <<112>>
             THEN cout[2] = [tag |-> "reply", bytes |-> <<1, 0>>]
             ELSE cout[2] = [tag |-> "reply", bytes |-> <<1, 1>>]
    /\ (InCout([tag |-> "reply", bytes |-> <<1, 1>>]) \/ authTry.state = "bad_version")
          => (pc = "closed" /\ NoRequestRead /\ Len(cout) <= 2)

C6_Witness ==
    /\ authTry.state = "read"
    /\ authTry.user = <<97>> /\ authTry.pass = <<113>>
    /\ InCout([tag |-> "reply", bytes |-> <<1, 1>>])
    /\ pc = "closed"

\* C36: with credentials configured, the SOCKS5 server has a request on a
\* connection only after it answered a username and password with 01 00.
C36_CredentialsRequired ==
    (cfg.creds /\ served = "socks5" /\ req # NoReq)
        => /\ sel = 2
           /\ authTry.state = "read"
           /\ InCout([tag |-> "reply", bytes |-> <<1, 0>>])

S5Positions == {"s5_serve", "s5_userpass", "s5_request", "s5_dial", "s5_bind",
                "s5_associate"}

S4Positions == {"s4_serve", "s4_dial", "s4_bind"}

\* C9: the front door serves first byte 05 with the SOCKS5 server, 04 with
\* the SOCKS4 server and ends any other connection with an unsupported
\* version error without invoking a server; the peeked byte is not consumed:
\* what the servers read, what is buffered and what is unread are together
\* always exactly the client's stream, so the server's first byte is the
\* peeked one.
C9_FrontDoorDispatch ==
    /\ readLog \o rbuf \o cin = stream0
    /\ peeked # -1 => peeked = stream0[1]
    /\ (served = "socks5") <=> (peeked = 5)
    /\ (served = "socks4") <=> (peeked = 4)
    /\ pc \in S5Positions => served = "socks5"
    /\ pc \in S4Positions => served = "socks4"
    /\ (peeked # -1 /\ peeked \notin {4, 5})
          => /\ pc = "closed" /\ ret = "unsupported_version"
             /\ readLog = <<>> /\ cout = <<>> /\ sel = -1 /\ req = NoReq
    /\ Len(readLog) >= 1 => (peeked # -1 /\ readLog[1] = peeked)

C9_Witness ==
    /\ served = "socks4" /\ peeked = 4
    /\ Len(readLog) >= 8 /\ readLog[1] = 4
    /\ req.proto = 4

----------------------------------------------------------------------------
(* virtualTun.handler: dial through the tunnel, then two copiers *)

Networks == {"tcp", "tcp4", "tcp6", "udp", "udp4", "udp6"}

\* A handler without an idle timeout on any network.
NoTimeout(network) == 0

\* The per-direction idle timeout in seconds: 15 for the UDP networks.
Timeout(network) == IF network \in {"udp", "udp4", "udp6"} THEN 15 ELSE 0

NewCopier == [pc |-> "idle", err |-> "nil", nr |-> 0, er |-> "nil",
              rounds |-> 0, deadline |-> -1]

\* The connection copier i reads from.
Src(i) == IF i = 1 THEN "client" ELSE "tunnel"

HandlerIdle ==
    /\ hpc = "idle" /\ hnet = "tcp" /\ cp = [i \in {1, 2} |-> NewCopier]
    /\ done = <<>> /\ recvd = <<>> /\ hclosed = {} /\ hret = "none"

HandlerInit ==
    /\ hpc = "dial"
    /\ hnet \in Networks
    /\ cp = [i \in {1, 2} |-> NewCopier]
    /\ done = <<>>
    /\ recvd = <<>>
    /\ hclosed = {}
    /\ hret = "none"

\* handler up to the start of the copiers: a dial error is returned as it
\* is; on success the deferred closes are registered and both copiers start.
HandlerDial ==
    /\ hpc = "dial"
    /\ \E r \in DialOutcomes :
        IF r = "ok"
        THEN /\ hpc' = "recv1"
             /\ cp' = [i \in {1, 2} |-> [NewCopier EXCEPT !.pc = "deadline"]]
             /\ hret' = hret
        ELSE /\ hpc' = "returned"
             /\ hret' = r
             /\ cp' = cp
    /\ UNCHANGED <<hnet, done, recvd, hclosed>>
    /\ HandlerFrame

\* copyConnTimeout, top of the loop: the read deadline is now+timeout, or
\* the zero time when the timeout is 0; a failing SetReadDeadline returns.
CopySetDeadline(i) ==
    /\ cp[i].pc = "deadline"
    /\ \E ok \in BOOLEAN :
        /\ (Src(i) \in hclosed) => ~ok
        /\ cp' = [cp EXCEPT ![i] =
                    IF ok
                    THEN [@ EXCEPT !.pc = "read", !.deadline = Timeout(hnet)]
                    ELSE [@ EXCEPT !.pc = "returned", !.err = "deadline_error"]]
    /\ UNCHANGED <<hpc, hnet, done, recvd, hclosed, hret>>
    /\ HandlerFrame

ReadErrors == {"nil", "EOF", "ECONNRESET", "timeout", "read_error"}

\* The error copyConnTimeout returns for a read error: EOF is no error.
ReadErr(er) == IF er = "EOF" THEN "nil" ELSE er

\* src.Read returns (nr, er).
CopyRead(i) ==
    /\ cp[i].pc = "read"
    /\ \E nr \in {0, 1}, er \in ReadErrors :
        /\ er = "timeout" => cp[i].deadline > 0
        /\ er = "nil" => cp[i].rounds < MaxRounds
        /\ cp' = [cp EXCEPT ![i] =
                    IF nr > 0
                    THEN [@ EXCEPT !.pc = "write", !.nr = nr, !.er = er]
                    ELSE IF er # "nil"
                    THEN [@ EXCEPT !.pc = "returned", !.nr = nr, !.er = er,
                                   !.err = ReadErr(er)]
                    ELSE [@ EXCEPT !.pc = "deadline", !.nr = nr, !.er = er,
                                   !.rounds = @ + 1]]
    /\ UNCHANGED <<hpc, hnet, done, recvd, hclosed, hret>>
    /\ HandlerFrame

WriteResults == {"nil", "write_error", "short_write"}

\* dst.Write of the bytes read: a write error or a short write ends the
\* copy; otherwise a read error (other than EOF) does, or the loop goes on.
CopyWrite(i) ==
    /\ cp[i].pc = "write"
    /\ \E ew \in WriteResults :
        cp' = [cp EXCEPT ![i] =
                 IF ew # "nil"
                 THEN [@ EXCEPT !.pc = "returned", !.err = ew]
                 ELSE IF cp[i].er # "nil"
                 THEN [@ EXCEPT !.pc = "returned", !.err = ReadErr(cp[i].er)]
                 ELSE [@ EXCEPT !.pc = "deadline", !.rounds = @ + 1]]
    /\ UNCHANGED <<hpc, hnet, done, recvd, hclosed, hret>>
    /\ HandlerFrame

\* What a copier sends on done: the client->tunnel copier sends nil for
\* ECONNRESET, the tunnel->client copier sends the error as it is.
DoneValue(i, err) == IF i = 1 /\ err = "ECONNRESET" THEN "nil" ELSE err

\* A copier sends its result on the done channel (capacity 1) and exits.
CopierDone(i) ==
    /\ cp[i].pc = "returned"
    /\ Len(done) < 1
    /\ done' = Append(done, DoneValue(i, cp[i].err))
    /\ cp' = [cp EXCEPT ![i].pc = "exited"]
    /\ UNCHANGED <<hpc, hnet, recvd, hclosed, hret>>
    /\ HandlerFrame

\* The handler receives the first copier's result (and logs an error).
HandlerRecv1 ==
    /\ hpc = "recv1"
    /\ done # <<>>
    /\ recvd' = Append(recvd, Head(done))
    /\ done' = Tail(done)
    /\ hpc' = "recv2"
    /\ UNCHANGED <<hnet, cp, hclosed, hret>>
    /\ HandlerFrame

\* What the handler returns after both copiers are done.
HandlerResult(r) == "nil"

\* The handler receives the second result, returns, and its deferred
\* function closes the tunnel connection and the client connection.
HandlerRecv2 ==
    /\ hpc = "recv2"
    /\ done # <<>>
    /\ recvd' = Append(recvd, Head(done))
    /\ done' = Tail(done)
    /\ hret' = HandlerResult(Append(recvd, Head(done)))
    /\ hclosed' = {"tunnel", "client"}
    /\ hpc' = "returned"
    /\ UNCHANGED <<hnet, cp>>
    /\ HandlerFrame

HandlerNext ==
    \/ HandlerDial
    \/ \E i \in {1, 2} : CopySetDeadline(i)
    \/ \E i \in {1, 2} : CopyRead(i)
    \/ \E i \in {1, 2} : CopyWrite(i)
    \/ \E i \in {1, 2} : CopierDone(i)
    \/ HandlerRecv1
    \/ HandlerRecv2

\* C7: the forwarding handler returns the first non-nil error a copier
\* reported, and nil only when neither copier reported an error.
C7_HandlerReturnsFirstError ==
    (hpc = "returned" /\ Len(recvd) = 2)
        => hret = (IF recvd[1] # "nil" THEN recvd[1] ELSE recvd[2])

\* C31: once the handler has the result of the first copier, the client
\* connection and the tunnel connection are closed while it waits for the
\* second.
C31_ClosedAfterFirstCopier ==
    hpc = "recv2" => hclosed = {"tunnel", "client"}

\* C32: a copier that ends with ECONNRESET sends nil on the done channel.
C32_ResetIsClean ==
    [][\A i \in {1, 2} :
          (CopierDone(i) /\ cp[i].err = "ECONNRESET")
              => done' = Append(done, "nil")]_vars

\* C33: a copier comes to its Read only from the SetReadDeadline of the
\* same iteration, with the deadline 15 s ahead on the UDP networks and the
\* zero time on the others; a SetReadDeadline that fails ends the copier,
\* which does not read again.
C33_DeadlineBeforeRead ==
    [][\A i \in {1, 2} :
          /\ (cp'[i].pc = "read" /\ cp[i].pc # "read")
                => /\ cp[i].pc = "deadline"
                   /\ cp'[i].deadline =
                         (IF hnet \in {"udp", "udp4", "udp6"} THEN 15 ELSE 0)
          /\ (cp[i].pc = "deadline" /\ cp'[i].err = "deadline_error")
                => cp'[i].pc = "returned"
          /\ cp[i].pc \in {"returned", "exited"}
                => cp'[i].pc \in {"returned", "exited"}]_vars

\* A UDP copier at the Read of its second iteration, and a TCP one.
C33_Witness ==
    \E i \in {1, 2} :
        /\ cp[i].pc = "read" /\ cp[i].rounds >= 1
        /\ hnet = "udp4" /\ cp[i].deadline = 15

----------------------------------------------------------------------------
(* The HTTP proxy: ServeConn, handleIPProxy, handleHTTP, embedHandleHTTP *)

defaultHTTPPort == <<56, 48>>           \* "80"
defaultHTTPSPort == <<52, 52, 51>>      \* "443"
connectIP == "connect-ip"
upgrade == "upgrade"
httpConnectionEstablished == "200 Connection Established"
httpSwitchingProtocols == "101 Switching Protocols"
StatusServiceUnavailable == "503 Service Unavailable"
StatusBadRequest == "400 Bad Request"

\* strings.EqualFold on the header values that occur.
Fold(v) == IF v = "Upgrade" THEN "upgrade" ELSE v
EqualFold(a, b) == Fold(a) = Fold(b)

\* net.SplitHostPort of req.URL.Host: the host is [name, colon, port], and
\* a host without a colon has no port to split off.
SplitHostPort(h) ==
    IF h.colon
    THEN [host |-> h.name, port |-> h.port, err |-> FALSE]
    ELSE [host |-> "", port |-> <<>>, err |-> TRUE]

\* strconv.Atoi on a string of bytes: decimal digits only, at least one.
RECURSIVE AtoiDigits(_, _)
AtoiDigits(str, acc) ==
    IF str = <<>> THEN acc
    ELSE AtoiDigits(Tail(str), acc * 10 + (Head(str) - 48))

Atoi(str) ==
    IF str = <<>> \/ \E k \in 1..Len(str) : str[k] \notin 48..57
    THEN [err |-> TRUE, n |-> 0]
    ELSE [err |-> FALSE, n |-> AtoiDigits(str, 0)]

getTarget(r, isConnect) ==
    LET sp == SplitHostPort(r.host)
        host == IF sp.err THEN r.host.name ELSE sp.host
        port == IF ~sp.err THEN sp.port
                ELSE IF r.scheme = "https" \/ isConnect
                THEN defaultHTTPSPort
                ELSE defaultHTTPPort
    IN  [host |-> host, port |-> port, addr |-> [host |-> host, port |-> port]]

HttpHosts ==
    { [name |-> "example.com", colon |-> FALSE, port |-> <<>>],
      [name |-> "example.com", colon |-> TRUE, port |-> <<>>],
      [name |-> "example.com", colon |-> TRUE, port |-> <<56, 48, 56, 48>>] }

HttpRequests ==
    [ method : {"CONNECT", "GET", "POST"},
      host : HttpHosts,
      scheme : {"", "http", "https"},
      connection : {"", "upgrade", "Upgrade"},
      upgrade : {"", "connect-ip"},
      capsule : {"", "?1"} ]

NoHttpReq ==
    [method |-> "", host |-> [name |-> "", colon |-> FALSE, port |-> <<>>],
     scheme |-> "", connection |-> "", upgrade |-> "", capsule |-> ""]

\* What http.ReadRequest returns: a request, io.EOF, or another error.
HttpReads ==
    {[err |-> "nil", req |-> r] : r \in HttpRequests}
        \cup {[err |-> e, req |-> NoHttpReq] : e \in {"EOF", "malformed"}}

\* What the client sends after the blank line that ends the headers.
ClientBytes == [i \in 1..(MaxBuffered + 2) |-> 64 + i]

NoHttpDial == [addr |-> [host |-> "", port |-> <<>>], result |-> "none"]

HttpIdle ==
    /\ httpPc = "idle" /\ httpIn = [err |-> "EOF", req |-> NoHttpReq]
    /\ httpUser = FALSE /\ httpOut = <<>> /\ httpSent = <<>>
    /\ httpDial = NoHttpDial /\ httpRet = "none"
    /\ httpBuffered = <<>> /\ httpData = <<>>

HttpInit ==
    /\ httpPc = "accepted"
    /\ httpIn \in HttpReads
    /\ httpUser \in BOOLEAN
    /\ httpOut = <<>>
    /\ httpSent = <<>>
    /\ httpDial = NoHttpDial
    /\ httpRet = "none"
    /\ httpBuffered = <<>>
    /\ httpData = <<>>

\* handleIPProxy up to the blocking io.Copy.
handleIPProxy(r, wok) ==
    IF r.capsule # "?1"
    THEN /\ httpOut' = Append(httpOut, StatusBadRequest)
         /\ httpRet' = "missing Capsule-Protocol header"
         /\ httpPc' = "closed"
    ELSE IF ~wok
    THEN /\ httpOut' = httpOut
         /\ httpRet' = "write_error"
         /\ httpPc' = "closed"
    ELSE /\ httpOut' = Append(httpOut, httpSwitchingProtocols)
         /\ httpRet' = httpRet
         /\ httpPc' = "ip_tunnel"

\* handleHTTP with a user connect handler, up to the handler's dial: a
\* CONNECT is answered 200 before the handler is called.
handleHTTP(r, isConnect, wok) ==
    LET t == getTarget(r, isConnect) IN
    IF isConnect /\ ~wok
    THEN /\ httpOut' = httpOut
         /\ httpRet' = "write_error"
         /\ httpPc' = "closed"
         /\ httpDial' = httpDial
    ELSE /\ httpOut' = IF isConnect
                       THEN Append(httpOut, httpConnectionEstablished)
                       ELSE httpOut
         /\ IF Atoi(t.port).err
            THEN /\ httpRet' = "atoi_error"
                 /\ httpPc' = "closed"
                 /\ httpDial' = httpDial
            ELSE /\ httpRet' = httpRet
                 /\ httpPc' = "vt_dial"
                 /\ httpDial' = [addr |-> t.addr, result |-> "none"]

\* ServeConn: read one request and route it. The request is read through
\* a bufio.Reader on the connection, which takes from the socket whatever
\* has arrived, the bytes after the headers included, and is dropped when
\* ServeConn hands the connection on.
HttpServeConn ==
    /\ httpPc = "accepted"
    /\ \E n \in 0..(IF httpIn.err = "nil" THEN MaxBuffered ELSE 0) :
        httpBuffered' = SubSeq(ClientBytes, 1, n)
    /\ \E wok \in BOOLEAN :
        IF httpIn.err = "EOF"
        THEN /\ httpRet' = "nil" /\ httpPc' = "closed"
             /\ wok /\ UNCHANGED <<httpOut, httpDial>>
        ELSE IF httpIn.err # "nil"
        THEN /\ httpRet' = httpIn.err /\ httpPc' = "closed"
             /\ wok /\ UNCHANGED <<httpOut, httpDial>>
        ELSE LET r == httpIn.req IN
             IF /\ r.method = "GET"
                /\ EqualFold(r.connection, upgrade)
                /\ EqualFold(r.upgrade, connectIP)
             THEN /\ handleIPProxy(r, wok)
                  /\ (r.capsule # "?1" => wok)
                  /\ httpDial' = httpDial
             ELSE IF ~httpUser
             THEN /\ httpDial' = [addr |-> getTarget(r, r.method = "CONNECT").addr,
                                  result |-> "none"]
                  /\ httpPc' = "embed_dial"
                  /\ wok /\ UNCHANGED <<httpOut, httpRet>>
             ELSE /\ handleHTTP(r, r.method = "CONNECT", wok)
                  /\ (r.method # "CONNECT" => wok)
    /\ UNCHANGED <<httpIn, httpUser, httpSent, httpData>>
    /\ HttpFrame

\* embedHandleHTTP after its ProxyDial returned: 503 on failure; on
\* success 200 for CONNECT, or the request is written to the destination.
HttpEmbedDialed ==
    /\ httpPc = "embed_dial"
    /\ \E r \in DialOutcomes, wok \in BOOLEAN :
        /\ httpDial' = [httpDial EXCEPT !.result = r]
        /\ IF r # "ok"
           THEN /\ httpOut' = Append(httpOut, StatusServiceUnavailable)
                /\ httpRet' = r
                /\ httpPc' = "closed"
                /\ wok /\ UNCHANGED httpSent
           ELSE IF ~wok
           THEN /\ httpRet' = "write_error"
                /\ httpPc' = "closed"
                /\ UNCHANGED <<httpOut, httpSent>>
           ELSE /\ IF httpIn.req.method = "CONNECT"
                   THEN /\ httpOut' = Append(httpOut, httpConnectionEstablished)
                        /\ httpSent' = httpSent
                   ELSE /\ httpSent' = Append(httpSent, "request")
                        /\ httpOut' = httpOut
                /\ httpPc' = "tunnel"
                /\ httpRet' = httpRet
    /\ UNCHANGED <<httpIn, httpUser, httpBuffered, httpData>>
    /\ HttpFrame

\* The user connect handler (virtualTun.handler) after its dial returned:
\* a dial error is returned and nothing is written to the client.
HttpVtDialed ==
    /\ httpPc = "vt_dial"
    /\ \E r \in DialOutcomes :
        /\ httpDial' = [httpDial EXCEPT !.result = r]
        /\ IF r # "ok"
           THEN httpRet' = r /\ httpPc' = "closed"
           ELSE httpRet' = httpRet /\ httpPc' = "tunnel"
    /\ UNCHANGED <<httpIn, httpUser, httpOut, httpSent, httpBuffered, httpData>>
    /\ HttpFrame

\* One chunk forwarded from the client: the wrapped connection of a
\* non-CONNECT request yields the request itself first. Data is read from
\* the connection, so it is the next byte the socket still holds.
HttpTunnelUp ==
    /\ httpPc = "tunnel"
    /\ Len(httpSent) < 2
    /\ IF httpIn.req.method # "CONNECT" /\ httpSent = <<>>
       THEN /\ httpSent' = Append(httpSent, "request")
            /\ httpData' = httpData
       ELSE /\ httpSent' = Append(httpSent, "data")
            /\ httpData' = Append(httpData,
                    ClientBytes[Len(httpBuffered) + Len(httpData) + 1])
    /\ UNCHANGED <<httpPc, httpIn, httpUser, httpOut, httpDial, httpRet, httpBuffered>>
    /\ HttpFrame

\* The tunnel (or the connect-ip discard loop) ends.
HttpClose ==
    /\ httpPc \in {"tunnel", "ip_tunnel"}
    /\ httpPc' = "closed"
    /\ httpRet' = "nil"
    /\ UNCHANGED <<httpIn, httpUser, httpOut, httpSent, httpDial, httpBuffered,
                   httpData>>
    /\ HttpFrame

HttpNext ==
    \/ HttpServeConn
    \/ HttpEmbedDialed
    \/ HttpVtDialed
    \/ HttpTunnelUp
    \/ HttpClose

\* C8: an HTTP proxy request whose dial fails is answered 503 and never
\* 200 Connection Established, the tunnel forwarder being the handler.
C8_HttpDialFailureIs503 ==
    (httpPc = "closed" /\ httpUser /\ httpDial.result \in DialErrors)
        => /\ \E k \in 1..Len(httpOut) : httpOut[k] = StatusServiceUnavailable
           /\ \A k \in 1..Len(httpOut) : httpOut[k] # httpConnectionEstablished

\* C40: for an HTTP CONNECT, every byte the client sends after the end of
\* the request headers is delivered to the destination in order, the bytes
\* that arrived with the headers and sit in the request reader included.
C40_ConnectBytesInOrder ==
    httpIn.req.method = "CONNECT" =>
        httpData = SubSeq(ClientBytes, 1, Len(httpData))

----------------------------------------------------------------------------
(* The embedded UDP relay: embedHandleAssociate *)

\* A net.Addr of the UDP endpoint; NilUDPAddr is the nil interface value.
NilUDPAddr == [nil |-> TRUE, IP |-> <<>>, Port |-> 0]

UDPAddr(ip, port) == [nil |-> FALSE, IP |-> ip, Port |-> port]

\* net.UDPAddr.String(): an empty IP prints as the empty host.
UDPAddrString(a) ==
    JoinHostPort(IF Len(a.IP) = 0 THEN NameHost(<<>>) ELSE IPString(a.IP),
                 a.Port)

NoString == JoinHostPort([kind |-> "none", v |-> <<>>], 0)

ClientUDP == UDPAddr(<<127, 0, 0, 1>>, 5000)
StrangerUDP == UDPAddr(<<127, 0, 0, 1>>, 5001)
Target1 == UDPAddr(<<8, 8, 8, 8>>, 53)
Target2 == UDPAddr(<<8, 8, 4, 4>>, 53)

Senders == {ClientUDP, StrangerUDP, Target1}

\* RSV RSV FRAG, then the address as writeAddr writes it.
UdpHeader(frag, a) == <<0, 0, frag>> \o writeAddr([Name |-> <<>>, IP |-> a.IP, Port |-> a.Port])

\* The length of the relay's buffer, scaled down: what ReadFrom is given is
\* buf[:], so a datagram can be as long as the buffer.
maxUdpPacket == 21

\* A datagram that fills the buffer.
FullBuffer == [i \in 1..maxUdpPacket |-> 71]

Datagrams ==
    { UdpHeader(0, Target1) \o Payload,
      UdpHeader(0, Target2) \o Payload,
      UdpHeader(1, Target1) \o Payload,
      <<0, 0, 0, domainName, 2, 101, 120, 0, 53>> \o Payload,
      <<0, 0, 0, 9, 1, 2>>,
      Payload,
      FullBuffer }

\* An address variable that is assigned on every datagram.
SetAlways(cur, new) == new

\* An address variable is assigned only while it is still nil.
SetIfNil(cur, new) == IF cur.nil THEN new ELSE cur

\* writeAddrWithStr into a buffer that starts with three zero bytes.
ReplyPrefix(target) ==
    <<0, 0, 0>> \o writeAddr([Name |-> <<>>, IP |-> target.IP, Port |-> target.Port])

\* A payload that keeps the address header, only RSV and FRAG removed.
PayloadWithHeader(b, next) == Drop(b, 3)

\* reader.Bytes() after readAddr: what is left of the datagram when the
\* three leading bytes and the address header have been read.
ClientPayload(b, next) == Drop(b, next - 1)

\* The datagram sent back to the client: the prefix, then the n bytes read.
ReplyDatagram(prefix, b) == prefix \o b

\* The slices buf[len(replyPrefix):len(replyPrefix)+n] and
\* buf[:len(replyPrefix)+n] of the buffer are in range.
SliceInRange(prefix, n) == Len(prefix) + n <= maxUdpPacket

RelayIdle ==
    /\ uPc = "idle" /\ sourceAddr = NilUDPAddr /\ wantSource = NoString
    /\ targetAddr = NilUDPAddr /\ wantTarget = NoString
    /\ replyPrefix = <<>> /\ udpClosed = FALSE /\ tcpEnded = FALSE
    /\ uLog = <<>> /\ uRet = "none"

RelayInit ==
    /\ uPc = "associate"
    /\ sourceAddr = NilUDPAddr
    /\ wantSource = NoString
    /\ targetAddr = NilUDPAddr
    /\ wantTarget = NoString
    /\ replyPrefix = <<>>
    /\ udpClosed = FALSE
    /\ tcpEnded = FALSE
    /\ uLog = <<>>
    /\ uRet = "none"

\* How handleAssociate gets to its handler: ProxyListenPacket fails, or the
\* endpoint is open and PacketForwardAddress fails, or the success reply
\* cannot be written, or the reply is out and the embedded relay or the
\* user's handler takes the endpoint.
AssociateOutcomes ==
    {"listen_error", "address_error", "reply_error", "embedded", "user"}

\* handleAssociate up to the call of the relay. None of its returns closes
\* the endpoint.
AssociateStart ==
    /\ uPc = "associate"
    /\ \E r \in AssociateOutcomes :
        /\ uPc' = IF r = "embedded" THEN "loop"
                  ELSE IF r = "user" THEN "user_handler"
                  ELSE "failed"
        /\ uRet' = IF r \in {"embedded", "user"} THEN uRet ELSE r
    /\ UNCHANGED <<sourceAddr, wantSource, targetAddr, wantTarget,
                   replyPrefix, udpClosed, tcpEnded, uLog>>
    /\ RelayFrame

\* One iteration of the relay loop: ReadFrom returned datagram b from
\* addr, and the loop body ran to its continue, to its call of WriteTo, or
\* to a slice of the buffer that is out of range, where the goroutine
\* panics.
RelayDatagram ==
    /\ uPc = "loop"
    /\ ~udpClosed
    /\ Len(uLog) < MaxDatagrams
    /\ \E from \in Senders, b \in Datagrams :
        LET src == SetIfNil(sourceAddr, from)
            wantSrc == IF sourceAddr.nil THEN UDPAddrString(src) ELSE wantSource
            gotAddr == UDPAddrString(from)
            a == readAddr(b, 4)
            tgt == SetIfNil(targetAddr, UDPAddr(a.addr.IP, a.addr.Port))
            wantTgt == IF targetAddr.nil THEN UDPAddrString(tgt) ELSE wantTarget
            prefix == IF replyPrefix = <<>> THEN ReplyPrefix(targetAddr)
                      ELSE replyPrefix
            entry(what, to, out) ==
                [from |-> from, bytes |-> b, action |-> what, to |-> to,
                 out |-> out, closed |-> FALSE]
        IN  /\ sourceAddr' = src
            /\ wantSource' = wantSrc
            /\ IF wantSrc = gotAddr
               THEN IF Len(b) < 3 \/ ~a.ok
                    THEN /\ uLog' = Append(uLog, entry("drop", NilUDPAddr, <<>>))
                         /\ uPc' = "loop"
                         /\ UNCHANGED <<targetAddr, wantTarget, replyPrefix>>
                    ELSE /\ targetAddr' = tgt
                         /\ wantTarget' = wantTgt
                         /\ replyPrefix' = replyPrefix
                         /\ IF Address5String(a.addr) # wantTgt
                            THEN /\ uLog' = Append(uLog, entry("drop", NilUDPAddr, <<>>))
                                 /\ uPc' = "loop"
                            ELSE /\ uLog' = Append(uLog,
                                        entry("writing", tgt, ClientPayload(b, a.next)))
                                 /\ uPc' = "write"
               ELSE IF ~targetAddr.nil /\ wantTarget = gotAddr
               THEN /\ replyPrefix' = prefix
                    /\ IF SliceInRange(prefix, Len(b))
                       THEN /\ uLog' = Append(uLog,
                                   entry("writing", sourceAddr,
                                         ReplyDatagram(prefix, b)))
                            /\ uPc' = "write"
                       ELSE /\ uLog' = Append(uLog, entry("panic", NilUDPAddr, <<>>))
                            /\ uPc' = "panic"
                    /\ UNCHANGED <<targetAddr, wantTarget>>
               ELSE /\ uLog' = Append(uLog, entry("drop", NilUDPAddr, <<>>))
                    /\ uPc' = "loop"
                    /\ UNCHANGED <<targetAddr, wantTarget, replyPrefix>>
    /\ UNCHANGED <<udpClosed, tcpEnded, uRet>>
    /\ RelayFrame

\* A WriteTo that succeeds on an endpoint that has been closed.
WriteIgnoresClose(closed, wok) == wok

\* Whether udpConn.WriteTo succeeds: never on a closed endpoint.
WriteToOk(closed, wok) == wok /\ ~closed

\* udpConn.WriteTo returns: the datagram was sent and the loop goes on, or
\* the error is returned and the deferred function closes the endpoint.
RelayWriteTo ==
    /\ uPc = "write"
    /\ \E wok \in BOOLEAN :
        LET ok == WriteToOk(udpClosed, wok)
            n == Len(uLog)
        IN  /\ uLog' = [uLog EXCEPT ![n].action = IF ok THEN "forward"
                                                 ELSE "write_error",
                                    ![n].closed = udpClosed]
            /\ uPc' = IF ok THEN "loop" ELSE "returned"
            /\ uRet' = IF ok THEN uRet ELSE "write_error"
            /\ udpClosed' = (udpClosed \/ ~ok)
    /\ UNCHANGED <<sourceAddr, wantSource, targetAddr, wantTarget,
                   replyPrefix, tcpEnded>>
    /\ RelayFrame

\* A control-connection reader that leaves the UDP endpoint open.
LeaveOpen(closed) == closed

\* The endpoint after the control-connection reader's udpConn.Close().
CloseOnTcpEnd(closed) == TRUE

\* The goroutine reading the TCP control connection sees it end and
\* closes the UDP endpoint.
RelayTcpClosed ==
    /\ uPc \in {"loop", "write"}
    /\ ~tcpEnded
    /\ tcpEnded' = TRUE
    /\ udpClosed' = CloseOnTcpEnd(udpClosed)
    /\ UNCHANGED <<uPc, sourceAddr, wantSource, targetAddr, wantTarget,
                   replyPrefix, uLog, uRet>>
    /\ RelayFrame

\* ReadFrom fails on the closed endpoint and the handler returns.
RelayReadError ==
    /\ uPc = "loop"
    /\ udpClosed
    /\ uPc' = "returned"
    /\ uRet' = "read_error"
    /\ UNCHANGED <<sourceAddr, wantSource, targetAddr, wantTarget,
                   replyPrefix, udpClosed, tcpEnded, uLog>>
    /\ RelayFrame

RelayNext ==
    \/ AssociateStart
    \/ RelayDatagram
    \/ RelayWriteTo
    \/ RelayTcpClosed
    \/ RelayReadError

\* Whether datagram k of the log came from sourceAddr and carried a header
\* that parses.
ParsedFromSource(k) ==
    /\ UDPAddrString(uLog[k].from) = UDPAddrString(uLog[1].from)
    /\ Len(uLog[k].bytes) >= 3
    /\ readAddr(uLog[k].bytes, 4).ok

InnerDest(k) == readAddr(uLog[k].bytes, 4).addr

\* C10: sourceAddr is the sender of the first datagram and targetAddr the
\* inner destination of the first parsed datagram from sourceAddr, for the
\* whole association; a datagram from sourceAddr to another destination,
\* and a datagram from neither address, is dropped.
C10_RelayAddressesFixed ==
    /\ uLog = <<>> => sourceAddr.nil /\ targetAddr.nil
    /\ uLog # <<>> => sourceAddr = uLog[1].from
    /\ (\A k \in 1..Len(uLog) : ~ParsedFromSource(k)) => targetAddr.nil
    /\ \A k \in 1..Len(uLog) :
        (ParsedFromSource(k) /\ \A j \in 1..(k - 1) : ~ParsedFromSource(j))
            => targetAddr = UDPAddr(InnerDest(k).IP, InnerDest(k).Port)
    /\ \A k \in 1..Len(uLog) :
        (ParsedFromSource(k)
            /\ Address5String(InnerDest(k)) # UDPAddrString(targetAddr))
            => uLog[k].action = "drop"
    /\ \A k \in 1..Len(uLog) :
        (/\ UDPAddrString(uLog[k].from) # UDPAddrString(sourceAddr)
         /\ (targetAddr.nil
                \/ UDPAddrString(uLog[k].from) # UDPAddrString(targetAddr)))
            => uLog[k].action = "drop"

\* A second destination was asked for and dropped, and a stranger's
\* datagram was dropped, after the association's addresses were set.
C10_Witness ==
    /\ Len(uLog) = 3
    /\ ~targetAddr.nil
    /\ uLog[1].action = "forward"
    /\ ParsedFromSource(2)
    /\ Address5String(InnerDest(2)) # UDPAddrString(targetAddr)
    /\ uLog[2].action = "drop"
    /\ uLog[3].from = StrangerUDP
    /\ uLog[3].action = "drop"

\* Length of RSV RSV FRAG ATYP ADDR PORT at the head of datagram b.
HeaderLen(b) ==
    IF b[4] = 1 THEN 10 ELSE IF b[4] = 4 THEN 22 ELSE 7 + b[5]

FromSource(k) == UDPAddrString(uLog[k].from) = UDPAddrString(sourceAddr)

\* C11: a datagram forwarded to targetAddr is exactly the DATA field of the
\* client's datagram, and a datagram forwarded to sourceAddr is exactly
\* 00 00 00 | ATYP | target address | target port followed by the bytes
\* received from targetAddr.
C11_RelayFraming ==
    \A k \in 1..Len(uLog) :
        uLog[k].action = "forward" =>
            IF FromSource(k)
            THEN /\ uLog[k].to = targetAddr
                 /\ uLog[k].out = SubSeq(uLog[k].bytes, HeaderLen(uLog[k].bytes) + 1,
                                         Len(uLog[k].bytes))
            ELSE /\ uLog[k].to = sourceAddr
                 /\ uLog[k].out =
                        <<0, 0, 0, 1>> \o targetAddr.IP
                            \o <<targetAddr.Port \div 256, targetAddr.Port % 256>>
                            \o uLog[k].bytes
                 /\ replyPrefix = <<0, 0, 0, 1>> \o targetAddr.IP
                            \o <<targetAddr.Port \div 256, targetAddr.Port % 256>>

\* A client datagram was forwarded to the target and two replies of the
\* target were forwarded back.
C11_Witness ==
    /\ Len(uLog) = 3
    /\ \A k \in 1..3 : uLog[k].action = "forward"
    /\ FromSource(1) /\ uLog[1].out = Payload
    /\ uLog[2].from = Target1 /\ uLog[3].from = Target1
    /\ Len(uLog[3].out) = 10 + Len(uLog[3].bytes)

\* C12: a datagram from sourceAddr whose FRAG byte is not zero is dropped:
\* it is not forwarded to the target and does not fix targetAddr.
C12_FragDropped ==
    /\ \A k \in 1..Len(uLog) :
        (FromSource(k) /\ Len(uLog[k].bytes) >= 3 /\ uLog[k].bytes[3] # 0)
            => uLog[k].action = "drop"
    /\ (\A k \in 1..Len(uLog) : ParsedFromSource(k) => uLog[k].bytes[3] # 0)
            => targetAddr.nil

\* C37: a datagram from targetAddr, of whatever length ReadFrom can return,
\* is sent to the client as prefix and payload or is dropped: the relay
\* does not panic on it.
C37_RewrapInBuffer ==
    /\ uPc # "panic"
    /\ \A k \in 1..Len(uLog) :
          (~FromSource(k) /\ uLog[k].action \in {"forward", "write_error"})
              => uLog[k].out = replyPrefix \o uLog[k].bytes

\* C38: when handleAssociate has returned and had opened the endpoint, the
\* endpoint is closed.
C38_EndpointClosedOnReturn ==
    (uPc \in {"failed", "returned"} /\ uRet # "listen_error") => udpClosed

\* Every datagram that was sent on went out while the endpoint was open.
NoRelayAfterClose ==
    /\ \A k \in 1..Len(uLog) : uLog[k].action = "forward" => ~uLog[k].closed
    /\ tcpEnded => udpClosed
    /\ uPc = "returned" => udpClosed

\* C13: once a read on the control connection has failed the UDP endpoint
\* is closed, the handler eventually returns, and no datagram is relayed on
\* a closed endpoint.
C13_AssociationEndsWithTcp ==
    /\ []NoRelayAfterClose
    /\ (tcpEnded ~> uPc = "returned")

\* The control connection ended while a datagram was on its way out: the
\* write failed and the handler returned.
C13_Witness ==
    /\ tcpEnded /\ uPc = "returned" /\ uRet = "write_error"
    /\ Len(uLog) = 2
    /\ uLog[1].action = "forward"
    /\ uLog[2].action = "write_error" /\ uLog[2].closed

\* C16: a SOCKS4 connection that fails before any reply was sent (the
\* request does not parse, the CMD is neither 0x01 nor 0x02, or the dial
\* fails) has received exactly one reply, with CD = 0x5B, when it is closed.
C16_Socks4FailureIsRejected ==
    (/\ served = "socks4"
     /\ pc = "closed"
     /\ ret \notin {"none", "nil"}
     /\ \A i \in 1..Len(cout) :
           ~(cout[i].tag = "reply" /\ cout[i].bytes[2] = GrantedReply))
        => /\ Len(cout) = 1
           /\ cout[1].tag = "reply"
           /\ cout[1].bytes[1] = ReplyVersion
           /\ cout[1].bytes[2] = RejectedReply

----------------------------------------------------------------------------
(* BIND: embedHandleBind of the SOCKS4 and of the SOCKS5 server *)

\* net.IP.Equal: a 4-byte IP equals its 16-byte IPv4-in-IPv6 form.
IPEqual(a, b) ==
    IF Len(a) = Len(b) THEN a = b
    ELSE IF Len(a) = 4 /\ Len(b) = 16 THEN NetIPv4(a[1], a[2], a[3], a[4]) = b
    ELSE IF Len(a) = 16 /\ Len(b) = 4 THEN a = NetIPv4(b[1], b[2], b[3], b[4])
    ELSE FALSE

IPv6unspecified == [k \in 1..16 |-> 0]

\* net.IP.IsUnspecified: 0.0.0.0 or ::
IsUnspecified(ip) ==
    IPEqual(ip, <<0, 0, 0, 0>>) \/ IPEqual(ip, IPv6unspecified)

\* A rule that lets every incoming connection through.
BindAnyPeer(dst, peer) == FALSE

\* The source-address rule of SOCKS5 BIND: a DST.ADDR with an IP that is
\* not the wildcard must equal the IP the connection comes from.
BindMismatch(dst, peer) ==
    /\ Len(dst.IP) > 0
    /\ ~IsUnspecified(dst.IP)
    /\ ~IPEqual(peer, dst.IP)

\* A first reply that carries no address.
NoListenerAddr(proto) == NilAddr

\* The listener's address: SOCKS5 listens on the local IP of the client
\* connection, SOCKS4 on 0.0.0.0, both on a port the system chooses.
ListenerAddr(proto) ==
    [Name |-> <<>>,
     IP |-> IF proto = 5 THEN <<10, 0, 0, 1>> ELSE <<0, 0, 0, 0>>,
     Port |-> 5555]

PeerPort == 6000

\* A second reply that repeats the listener's address.
ListenerAsRemote(peer) == [Name |-> <<>>, IP |-> <<0, 0, 0, 0>>, Port |-> 5555]

\* The address of the accepted connection's peer.
RemoteAddr(peer) == [Name |-> <<>>, IP |-> peer, Port |-> PeerPort]

PeerIPs == {<<1, 2, 3, 4>>, NetIPv4(1, 2, 3, 4), <<9, 9, 9, 9>>}

BindDsts ==
    { [Name |-> <<>>, IP |-> <<1, 2, 3, 4>>, Port |-> 80],
      [Name |-> <<>>, IP |-> <<0, 0, 0, 0>>, Port |-> 0],
      [Name |-> <<>>, IP |-> IPv6unspecified, Port |-> 0],
      [Name |-> <<101, 120>>, IP |-> <<>>, Port |-> 80] }

\* The reply the server of the protocol writes.
BindReply(proto, ok, code, addr) ==
    IF proto = 5 THEN sendReply(code, addr)
    ELSE WriteReply(IF ok THEN GrantedReply ELSE RejectedReply, addr)

BEvent(ev, bytes) == [ev |-> ev, bytes |-> bytes, ok |-> TRUE]

\* A reply handed to the client connection; ok tells whether the write
\* succeeded.
BReply(r, wok) == [ev |-> "reply", bytes |-> r.bytes, ok |-> wok]

BindIdle ==
    /\ bPc = "idle" /\ bProto = 5 /\ bDst = NilAddr /\ bListener = "none"
    /\ bRemote = "none" /\ bPeer = <<>> /\ bAcceptor = "none"
    /\ bLog = <<>> /\ bRet = "none"

BindInit ==
    /\ bPc = "start"
    /\ bProto \in {4, 5}
    /\ bDst \in BindDsts
    /\ bListener = "none"
    /\ bRemote = "none"
    /\ bPeer = <<>>
    /\ bAcceptor = "none"
    /\ bLog = <<>>
    /\ bRet = "none"

\* embedHandleBind up to the wait for a connection: listen, and on success
\* write the first reply with the listener's address.
BindListen ==
    /\ bPc = "start"
    /\ \E lok \in BOOLEAN, wok \in BOOLEAN :
        IF ~lok
        THEN /\ bLog' = Append(bLog, BReply(BindReply(bProto, FALSE, serverFailure, NilAddr), wok))
             /\ bRet' = "failed to listen"
             /\ bPc' = "returned"
             /\ bListener' = bListener
             /\ bAcceptor' = bAcceptor
        ELSE IF ~wok
        THEN /\ bLog' = bLog \o <<BEvent("listen", <<>>),
                                  BReply(BindReply(bProto, TRUE, successReply,
                                                   ListenerAddr(bProto)), wok),
                                  BEvent("close_listener", <<>>)>>
             /\ bRet' = "failed to send first reply"
             /\ bPc' = "returned"
             /\ bListener' = "closed"
             /\ bAcceptor' = bAcceptor
        ELSE /\ bLog' = bLog \o <<BEvent("listen", <<>>),
                                  BReply(BindReply(bProto, TRUE, successReply,
                                              ListenerAddr(bProto)), wok)>>
             /\ bRet' = bRet
             /\ bPc' = "accepting"
             /\ bListener' = "open"
             /\ bAcceptor' = IF bProto = 5 THEN "accepting" ELSE bAcceptor
    /\ UNCHANGED <<bProto, bDst, bRemote, bPeer>>
    /\ BindFrame

\* The goroutine the SOCKS5 handler starts for the wait: Accept returns,
\* the connection goes to remoteConn and the error to the channel, which
\* has room for it, and the goroutine ends. Accept on a closed listener
\* returns an error.
BindAcceptGoroutine ==
    /\ bProto = 5
    /\ bAcceptor = "accepting"
    /\ \E aok \in BOOLEAN, peer \in PeerIPs :
        /\ bListener = "closed" => ~aok
        /\ IF aok
           THEN /\ bRemote' = "open"
                /\ bPeer' = peer
                /\ bAcceptor' = "conn"
           ELSE /\ peer = <<1, 2, 3, 4>>
                /\ bAcceptor' = "error"
                /\ UNCHANGED <<bRemote, bPeer>>
    /\ UNCHANGED <<bPc, bProto, bDst, bListener, bLog, bRet>>
    /\ BindFrame

\* Accept returned (SOCKS4), or the goroutine's error arrived on the
\* channel (SOCKS5): an error is answered with a failure reply; a connection
\* is checked against DST.ADDR (SOCKS5 only) and answered with the second
\* reply carrying the peer's address, after which the tunnel starts.
BindAccepted ==
    /\ bPc = "accepting"
    /\ bProto = 5 => bAcceptor \in {"conn", "error"}
    /\ \E aok \in BOOLEAN, peer \in PeerIPs, wok \in BOOLEAN :
        LET remote == RemoteAddr(peer) IN
        /\ bProto = 5 => /\ aok = (bAcceptor = "conn")
                         /\ aok => peer = bPeer
        /\ IF ~aok
           THEN /\ peer = <<1, 2, 3, 4>>
                /\ bLog' = bLog \o <<BReply(BindReply(bProto, FALSE, serverFailure, NilAddr), wok),
                                     BEvent("close_listener", <<>>)>>
                /\ bRet' = "failed to accept"
                /\ bPc' = "returned"
                /\ bListener' = "closed"
                /\ UNCHANGED <<bRemote, bPeer>>
           ELSE /\ bPeer' = peer
                /\ IF bProto = 5 /\ BindMismatch(bDst, peer)
                   THEN /\ bLog' = bLog \o <<BEvent("accept", peer),
                                     BReply(BindReply(bProto, FALSE, ruleFailure, NilAddr), wok),
                                     BEvent("close_remote", <<>>),
                                     BEvent("close_listener", <<>>)>>
                        /\ bRet' = "bind address mismatch"
                        /\ bPc' = "returned"
                        /\ bListener' = "closed"
                        /\ bRemote' = "closed"
                   ELSE IF ~wok
                   THEN /\ bLog' = bLog \o <<BEvent("accept", peer),
                                     BReply(BindReply(bProto, TRUE, successReply, remote),
                                            wok),
                                     BEvent("close_remote", <<>>),
                                     BEvent("close_listener", <<>>)>>
                        /\ bRet' = "failed to send second reply"
                        /\ bPc' = "returned"
                        /\ bListener' = "closed"
                        /\ bRemote' = "closed"
                   ELSE /\ bLog' = bLog \o <<BEvent("accept", peer),
                                     BReply(BindReply(bProto, TRUE, successReply, remote), wok)>>
                        /\ bRet' = bRet
                        /\ bPc' = "tunnel"
                        /\ bListener' = bListener
                        /\ bRemote' = "open"
    /\ UNCHANGED <<bProto, bDst, bAcceptor>>
    /\ BindFrame

\* The SOCKS5 handler's context is done while it waits, whether or not the
\* channel holds the goroutine's result: a failure reply, and the deferred
\* function closes the listener.
BindCancelled ==
    /\ bPc = "accepting"
    /\ bProto = 5
    /\ \E wok \in BOOLEAN :
       bLog' = bLog \o <<BReply(BindReply(bProto, FALSE, serverFailure, NilAddr), wok),
                         BEvent("close_listener", <<>>)>>
    /\ bRet' = "bind accept timeout"
    /\ bPc' = "returned"
    /\ bListener' = "closed"
    /\ UNCHANGED <<bProto, bDst, bRemote, bPeer, bAcceptor>>
    /\ BindFrame

\* The tunnel forwards one chunk, from the client up to the accepted
\* connection or down from it to the client.
BindForward ==
    /\ bPc = "tunnel"
    /\ Cardinality({k \in 1..Len(bLog) : bLog[k].ev \in {"up", "down"}}) <= MaxDown
    /\ \E dir \in {"up", "down"} : bLog' = Append(bLog, BEvent(dir, Payload))
    /\ UNCHANGED <<bPc, bProto, bDst, bListener, bRemote, bPeer, bAcceptor, bRet>>
    /\ BindFrame

\* The tunnel ends; the deferred functions close the accepted connection
\* and the listener.
BindClose ==
    /\ bPc = "tunnel"
    /\ bLog' = bLog \o <<BEvent("close_remote", <<>>), BEvent("close_listener", <<>>)>>
    /\ bPc' = "returned"
    /\ bRet' = "nil"
    /\ bListener' = "closed"
    /\ bRemote' = "closed"
    /\ UNCHANGED <<bProto, bDst, bPeer, bAcceptor>>
    /\ BindFrame

BindNext ==
    \/ BindListen
    \/ BindAcceptGoroutine
    \/ BindAccepted
    \/ BindCancelled
    \/ BindForward
    \/ BindClose

\* C39: in SOCKS5 BIND, under every interleaving of the accept goroutine
\* and the cancellation of the server's context, a connection the BIND
\* listener accepted is closed once the handler has returned and the accept
\* goroutine has ended; none is left open when the handler returns on the
\* cancellation branch.
C39_AcceptedIsClosed ==
    (bProto = 5 /\ bPc = "returned" /\ bAcceptor \in {"conn", "error"}) =>
        bRemote # "open"

\* The replies the handler has written, in their order.
BindReplies == SelectSeq(bLog, LAMBDA e : e.ev = "reply")

\* The positions of the log at which the event ev stands.
BindAt(ev) == {k \in 1..Len(bLog) : bLog[k].ev = ev}

BindForwarded == BindAt("up") \cup BindAt("down")

\* The reply code of a reply: byte 2 in both protocols.
ReplyCode(e) == e.bytes[2]

\* DST.ADDR carries an IP address, and not the wildcard one.
DstIsFixedIP == Len(bDst.IP) > 0 /\ ~IsUnspecified(bDst.IP)

\* The peer's IP and DST.ADDR's IP are the same address.
PeerMatchesDst == IPString(bPeer) = IPString(bDst.IP)

\* C14 (as the code has it): in SOCKS5 BIND, when DST.ADDR carries an IP
\* address that is not the wildcard, an incoming connection from another IP
\* is answered with rule failure (0x02) as the second reply and nothing is
\* ever forwarded; a second success reply is written only when the source IP
\* matches or DST.ADDR carries no such IP.
C14_BindSourceRule ==
    bProto = 5 =>
        /\ (BindAt("accept") # {} /\ DstIsFixedIP /\ ~PeerMatchesDst) =>
              /\ Len(BindReplies) = 2
              /\ ReplyCode(BindReplies[2]) = ruleFailure
              /\ BindForwarded = {}
              /\ bPc = "returned"
        /\ (Len(BindReplies) >= 2 /\ ReplyCode(BindReplies[2]) = successReply) =>
              /\ BindAt("accept") # {}
              /\ PeerMatchesDst \/ ~DstIsFixedIP

\* DST.ADDR 1.2.3.4, a connection from 9.9.9.9: rule failure, both closed.
C14_Witness ==
    /\ bProto = 5 /\ bDst.IP = <<1, 2, 3, 4>> /\ bPeer = <<9, 9, 9, 9>>
    /\ Len(BindReplies) = 2
    /\ BindReplies[2].bytes = <<socks5Version, ruleFailure, 0, ipv4Address, 0, 0, 0, 0, 0, 0>>
    /\ bRemote = "closed" /\ bListener = "closed"

\* C14 (as stated): whenever DST.ADDR is given (an IP or a domain name) and
\* is not the wildcard, a connection whose source IP is not DST.ADDR is
\* answered with rule failure and nothing is forwarded.
C14_Original ==
    (/\ bProto = 5
     /\ BindAt("accept") # {}
     /\ bDst # NilAddr
     /\ ~(Len(bDst.IP) > 0 /\ IsUnspecified(bDst.IP))
     /\ (bDst.Name # <<>> \/ ~PeerMatchesDst)) =>
        /\ Len(BindReplies) = 2
        /\ ReplyCode(BindReplies[2]) = ruleFailure
        /\ BindForwarded = {}

C17_Socks4BindReplies ==
    bProto = 4 =>
        /\ Cardinality(BindAt("accept")) <= 1
        /\ \A k \in BindAt("accept") :
              /\ k = 3 /\ bLog[1].ev = "listen" /\ bLog[2].ev = "reply"
              /\ bLog[2].bytes = <<ReplyVersion, GrantedReply, 21, 179, 0, 0, 0, 0>>
              /\ bLog[2].ok
        /\ (bPc = "tunnel" \/ bRet = "nil") =>
              /\ Len(BindReplies) = 2
              /\ BindAt("accept") = {3}
              /\ bLog[4] = [ev |-> "reply", ok |-> TRUE,
                            bytes |-> <<ReplyVersion, GrantedReply, 23, 112>>
                                      \o To4(bPeer)]
        /\ \A f \in BindForwarded : f > 4
        /\ (bPc = "returned" /\ BindAt("listen") # {}) => bListener = "closed"

\* A SOCKS4 BIND that forwarded a chunk each way and returned.
C17_Witness ==
    /\ bProto = 4 /\ bPc = "returned" /\ bRet = "nil" /\ bListener = "closed"
    /\ bPeer = NetIPv4(1, 2, 3, 4)
    /\ BindAt("up") # {} /\ BindAt("down") # {}

----------------------------------------------------------------------------
(* WireSocks.Run: createWireguardDevice, then ProxyServer.Start *)

Line(key, value) == [key |-> key, value |-> value]

\* The status text of the device, one key=value line after the other: the
\* device's own lines, then each peer's lines in the order of the peers.
RECURSIVE PeerLines(_, _)
PeerLines(hs, i) ==
    IF i > Len(hs) THEN <<>>
    ELSE <<Line("public_key", "k"), Line("endpoint", "e"),
           Line("last_handshake_time_sec", hs[i]),
           Line("tx_bytes", "0")>> \o PeerLines(hs, i + 1)

IpcGet(hs) == <<Line("private_key", "k"), Line("listen_port", "1")>> \o PeerLines(hs, 1)

\* The scanner loop of waitHandshake: it stops at an empty line and at the
\* first line whose key is last_handshake_time_sec, whose value it keeps.
RECURSIVE Scan(_, _, _)
Scan(lines, i, last) ==
    IF i > Len(lines) THEN last
    ELSE IF lines[i].key = "" THEN last
    ELSE IF lines[i].key = "last_handshake_time_sec" THEN lines[i].value
    ELSE Scan(lines, i + 1, last)

\* A wait that does not look at the value.
HandshakeAssumed(last) == TRUE

\* The test that ends the wait.
HandshakeSeen(last) == last # "0"

\* A Start that accepts having no listener.
AlwaysSomeListener(socksLn, httpLn) == FALSE

\* The test for "no proxy listeners configured".
NoListeners(socksLn, httpLn) == socksLn = "none" /\ httpLn = "none"

\* A log call that only logs: Run goes on to its return statement.
LogOnly == "return"

\* log.Fatalf: log the message, then os.Exit(1).
Fatalf == "exit1"

Sides == {"socks", "http"}

BoolPairs == [Sides -> BOOLEAN]

NoHs == <<>>

RunIdle ==
    /\ wPc = "idle" /\ wDev = "none" /\ wHs = NoHs /\ wSeen = NoHs
    /\ wPolls = 0 /\ wProbes = 0
    /\ wOpts = [x \in Sides |-> FALSE] /\ wFree = [x \in Sides |-> FALSE]
    /\ wSocksLn = "none" /\ wHttpLn = "none" /\ wLoops = {}
    /\ wAccepted = 0 /\ wLog = <<>> /\ wCancelled = FALSE /\ wErr = "none"
    /\ wEnd = "none" /\ wCtx = FALSE /\ wLoopPc = [x \in Sides |-> "off"]
    /\ wWatcher = "off" /\ wHandlers = 0 /\ wStops = 0

RunInit ==
    /\ wPc = "start"
    /\ wDev = "none"
    /\ \E n \in 1..MaxPeers : wHs = [i \in 1..n |-> "0"]
    /\ wSeen = NoHs
    /\ wPolls = 0
    /\ wProbes = 0
    /\ wOpts \in BoolPairs
    /\ wFree \in BoolPairs
    /\ wSocksLn = "none"
    /\ wHttpLn = "none"
    /\ wLoops = {}
    /\ wAccepted = 0
    /\ wLog = <<>>
    /\ wCancelled = FALSE
    /\ wErr = "none"
    /\ wEnd = "none"
    /\ wCtx = FALSE
    /\ wLoopPc = [x \in Sides |-> "off"]
    /\ wWatcher = "off"
    /\ wHandlers = 0
    /\ wStops = 0

\* establishWireguard up to the wait: IpcSet, then Up; either may fail.
EstablishConfigure ==
    /\ wPc = "start"
    /\ \E setOk \in BOOLEAN, upOk \in BOOLEAN :
        IF ~setOk
        THEN /\ upOk
             /\ wPc' = "failed" /\ wErr' = "ipc_set" /\ wEnd' = Fatalf
             /\ wDev' = wDev /\ wLog' = wLog
        ELSE IF ~upOk
        THEN /\ wPc' = "failed" /\ wErr' = "up" /\ wEnd' = Fatalf /\ wDev' = "configured"
             /\ wLog' = Append(wLog, "ipc_set")
        ELSE /\ wPc' = "handshake" /\ wErr' = wErr /\ wEnd' = wEnd /\ wDev' = "up"
             /\ wLog' = wLog \o <<"ipc_set", "up">>
    /\ UNCHANGED <<wHs, wSeen, wPolls, wProbes, wOpts, wFree, wSocksLn, wHttpLn,
                   wLoops, wAccepted, wCancelled>>
    /\ UNCHANGED <<wCtx, wLoopPc, wWatcher, wHandlers, wStops>>
    /\ RunFrame

\* A peer completes its handshake with the device while waitHandshake is
\* reading the device's status.
PeerHandshake ==
    /\ wPc = "handshake"
    /\ \E i \in 1..Len(wHs) :
        /\ wHs[i] = "0"
        /\ wHs' = [wHs EXCEPT ![i] = "1"]
    /\ UNCHANGED <<wPc, wDev, wSeen, wPolls, wProbes, wOpts, wFree, wSocksLn,
                   wHttpLn, wLoops, wAccepted, wLog, wCancelled, wErr, wEnd, wCtx, wLoopPc, wWatcher,
                   wHandlers, wStops>>
    /\ RunFrame

\* One round of waitHandshake: IpcGet (an error starts the next round),
\* the scan, then either the end of the wait or a second of sleep.
WaitHandshakePoll ==
    /\ wPc = "handshake"
    /\ wPolls < MaxPolls
    /\ \E getOk \in BOOLEAN :
        IF ~getOk
        THEN wPolls' = wPolls + 1 /\ UNCHANGED <<wPc, wSeen, wLog>>
        ELSE /\ wSeen' = wHs
             /\ IF HandshakeSeen(Scan(IpcGet(wHs), 1, "0"))
                THEN /\ wPc' = "probe"
                     /\ wPolls' = 0
                     /\ wLog' = Append(wLog, "handshake_ok")
                ELSE wPolls' = wPolls + 1 /\ UNCHANGED <<wPc, wLog>>
    /\ UNCHANGED <<wDev, wHs, wProbes, wOpts, wFree, wSocksLn, wHttpLn, wLoops,
                   wAccepted, wCancelled, wErr, wEnd, wCtx, wLoopPc, wWatcher,
                   wHandlers, wStops>>
    /\ RunFrame

\* The 15 s deadline of the wait: the device is closed and Run fails.
WaitHandshakeDeadline ==
    /\ wPc = "handshake"
    /\ wPc' = "failed"
    /\ wErr' = "handshake_deadline" /\ wEnd' = Fatalf
    /\ wDev' = "closed"
    /\ UNCHANGED <<wHs, wSeen, wPolls, wProbes, wOpts, wFree, wSocksLn, wHttpLn,
                   wLoops, wAccepted, wLog, wCancelled>>
    /\ UNCHANGED <<wCtx, wLoopPc, wWatcher, wHandlers, wStops>>
    /\ RunFrame

\* One round of connectivityTest: a HEAD request that fails, is answered
\* with another status, or is answered 200.
ProbeAttempt ==
    /\ wPc = "probe"
    /\ ~wCancelled
    /\ wProbes < MaxProbes
    /\ \E r \in {"error", "status", "ok"} :
        IF r = "ok"
        THEN /\ wPc' = "proxy_start"
             /\ wProbes' = 0
             /\ wLog' = Append(wLog, "probe_ok")
        ELSE wProbes' = wProbes + 1 /\ UNCHANGED <<wPc, wLog>>
    /\ UNCHANGED <<wDev, wHs, wSeen, wPolls, wOpts, wFree, wSocksLn, wHttpLn,
                   wLoops, wAccepted, wCancelled, wErr, wEnd, wCtx, wLoopPc, wWatcher,
                   wHandlers, wStops>>
    /\ RunFrame

\* The probe's context is done because Stop cancelled the run: the device
\* is closed and Run fails with the context's error.
ProbeCancelled ==
    /\ wPc = "probe"
    /\ wCancelled
    /\ wPc' = "failed"
    /\ wErr' = "context canceled" /\ wEnd' = Fatalf
    /\ wDev' = "closed"
    /\ UNCHANGED <<wHs, wSeen, wPolls, wProbes, wOpts, wFree, wSocksLn, wHttpLn,
                   wLoops, wAccepted, wLog, wCancelled, wCtx, wLoopPc, wWatcher,
                   wHandlers, wStops>>
    /\ RunFrame

\* The probe's 10 s deadline passes: the device is closed and Run fails.
ProbeDeadline ==
    /\ wPc = "probe"
    /\ wPc' = "failed"
    /\ wErr' = "probe_deadline" /\ wEnd' = Fatalf
    /\ wDev' = "closed"
    /\ UNCHANGED <<wHs, wSeen, wPolls, wProbes, wOpts, wFree, wSocksLn, wHttpLn,
                   wLoops, wAccepted, wLog, wCancelled>>
    /\ UNCHANGED <<wCtx, wLoopPc, wWatcher, wHandlers, wStops>>
    /\ RunFrame

\* ProxyServer.Start: bind the configured listeners, SOCKS first; fail when
\* one cannot be bound or none is configured; else spawn the accept loops.
ProxyStart ==
    /\ wPc = "proxy_start"
    /\ LET socksLn == IF wOpts["socks"] /\ wFree["socks"] THEN "bound" ELSE "none"
           httpLn == IF wOpts["http"] /\ wFree["http"] THEN "bound" ELSE "none"
       IN  IF wOpts["socks"] /\ ~wFree["socks"]
           THEN /\ wErr' = "listen_socks" /\ wEnd' = Fatalf
                /\ wPc' = "failed" /\ wDev' = wDev
                /\ UNCHANGED <<wSocksLn, wHttpLn, wLoops, wLog>>
           ELSE IF wOpts["http"] /\ ~wFree["http"]
           THEN /\ wErr' = "listen_http" /\ wEnd' = Fatalf
                /\ wPc' = "failed" /\ wDev' = wDev
                /\ wSocksLn' = IF socksLn = "bound" THEN "closed" ELSE "none"
                /\ wLog' = IF socksLn = "bound" THEN Append(wLog, "listen_socks")
                           ELSE wLog
                /\ UNCHANGED <<wHttpLn, wLoops>>
           ELSE IF NoListeners(socksLn, httpLn)
           THEN /\ wErr' = "no proxy listeners configured" /\ wEnd' = Fatalf
                /\ wPc' = "failed" /\ wDev' = wDev
                /\ UNCHANGED <<wSocksLn, wHttpLn, wLoops, wLog>>
           ELSE /\ wSocksLn' = socksLn
                /\ wHttpLn' = httpLn
                /\ wLoops' = {x \in Sides :
                                (x = "socks" /\ socksLn # "none")
                                \/ (x = "http" /\ httpLn # "none")}
                /\ wLog' = wLog
                           \o (IF socksLn = "bound" THEN <<"listen_socks">> ELSE <<>>)
                           \o (IF httpLn = "bound" THEN <<"listen_http">> ELSE <<>>)
                /\ wPc' = "running"
                /\ UNCHANGED <<wErr, wEnd, wDev>>
    /\ wLoopPc' = [x \in Sides |-> IF x \in wLoops' THEN "select" ELSE "off"]
    /\ wWatcher' = IF wPc' = "running" THEN "waiting" ELSE "off"
    /\ UNCHANGED <<wHs, wSeen, wPolls, wProbes, wOpts, wFree, wAccepted, wCancelled,
                   wCtx, wHandlers, wStops>>
    /\ RunFrame

\* A context that a second cancel would revive.
CancelToggles(c) == ~c

\* context.CancelFunc: the context is cancelled, and stays so.
Cancel(c) == TRUE

\* net.Listener.Close: a bound listener is closed; closing again changes
\* nothing (the error is dropped).
CloseListener(ln) == IF ln = "bound" THEN "closed" ELSE ln

Listener(x) == IF x = "socks" THEN wSocksLn ELSE wHttpLn

\* A loop that does not look at its context.
LoopIgnoresCtx(ctxDone) == "accept"

\* The select at the head of ListenAndServe's loop.
LoopSelectNext(ctxDone) == IF ctxDone THEN "returned" ELSE "accept"

\* ListenAndServe at the head of its loop: return when the context is done,
\* else go on to Accept.
LoopSelectOf(x) ==
    /\ wLoopPc[x] = "select"
    /\ wLoopPc' = [wLoopPc EXCEPT ![x] = LoopSelectNext(wCtx)]
    /\ UNCHANGED <<wPc, wDev, wHs, wSeen, wPolls, wProbes, wOpts, wFree, wSocksLn,
                   wHttpLn, wLoops, wAccepted, wLog, wCancelled, wErr, wEnd, wCtx,
                   wWatcher, wHandlers, wStops>>
    /\ RunFrame

LoopSelect == \E x \in Sides : LoopSelectOf(x)

\* Accept returns: with an error when the listener is closed, and the loop
\* starts over; with a client connection, for which a handler is spawned.
LoopAcceptOf(x) ==
    /\ wLoopPc[x] = "accept"
    /\ wLoopPc' = [wLoopPc EXCEPT ![x] = "select"]
    /\ IF Listener(x) = "bound"
       THEN /\ wAccepted < MaxAccepts
            /\ wAccepted' = wAccepted + 1
            /\ wHandlers' = wHandlers + 1
            /\ wLog' = Append(wLog, "accept_" \o x)
       ELSE UNCHANGED <<wAccepted, wHandlers, wLog>>
    /\ UNCHANGED <<wPc, wDev, wHs, wSeen, wPolls, wProbes, wOpts, wFree, wSocksLn,
                   wHttpLn, wLoops, wCancelled, wErr, wEnd, wCtx, wWatcher, wStops>>
    /\ RunFrame

LoopAccept == \E x \in Sides : LoopAcceptOf(x)

\* A forwarding handler returns because its peers closed or a read failed.
HandlerEnds ==
    /\ wHandlers > 0
    /\ wHandlers' = wHandlers - 1
    /\ UNCHANGED <<wPc, wDev, wHs, wSeen, wPolls, wProbes, wOpts, wFree, wSocksLn,
                   wHttpLn, wLoops, wAccepted, wLog, wCancelled, wErr, wEnd, wCtx,
                   wLoopPc, wWatcher, wStops>>
    /\ RunFrame

\* The goroutine of Start: once the context is done it calls vt.Stop, which
\* finds no device in the virtualTun and does nothing.
WatcherRuns ==
    /\ wWatcher = "waiting"
    /\ wCtx
    /\ wWatcher' = "done"
    /\ UNCHANGED <<wPc, wDev, wHs, wSeen, wPolls, wProbes, wOpts, wFree, wSocksLn,
                   wHttpLn, wLoops, wAccepted, wLog, wCancelled, wErr, wEnd, wCtx,
                   wLoopPc, wHandlers>>
    /\ UNCHANGED wStops
    /\ RunFrame

\* WireSocks.Stop: cancel the context of the run.
RunStop ==
    /\ wStops < MaxStops
    /\ wEnd # "exit1"
    /\ wStops' = wStops + 1
    /\ wCancelled' = Cancel(wCancelled)
    /\ UNCHANGED <<wPc, wDev, wHs, wSeen, wPolls, wProbes, wOpts, wFree, wSocksLn,
                   wHttpLn, wLoops, wAccepted, wLog, wErr, wEnd, wCtx, wLoopPc,
                   wWatcher, wHandlers>>
    /\ RunFrame

\* Run once its context is done: ProxyServer.Stop begins by cancelling the
\* context of the proxies.
ProxyStopCancel ==
    /\ wPc = "running"
    /\ wCancelled
    /\ wCtx' = Cancel(wCtx)
    /\ wPc' = "stop_close"
    /\ wLog' = Append(wLog, "cancel")
    /\ UNCHANGED <<wDev, wHs, wSeen, wPolls, wProbes, wOpts, wFree, wSocksLn,
                   wHttpLn, wLoops, wAccepted, wCancelled, wErr, wEnd, wLoopPc,
                   wWatcher, wHandlers, wStops>>
    /\ RunFrame

\* ProxyServer.Stop then closes the listeners it has.
ProxyStopClose ==
    /\ wPc = "stop_close"
    /\ wHttpLn' = CloseListener(wHttpLn)
    /\ wSocksLn' = CloseListener(wSocksLn)
    /\ wPc' = "stop_return"
    /\ wLog' = Append(wLog, "close_listeners")
    /\ UNCHANGED <<wDev, wHs, wSeen, wPolls, wProbes, wOpts, wFree, wLoops,
                   wAccepted, wCancelled, wErr, wEnd, wCtx, wLoopPc, wWatcher,
                   wHandlers, wStops>>
    /\ RunFrame

\* Run returns nil; its deferred function closes the device.
RunReturn ==
    /\ wPc = "stop_return"
    /\ wDev' = "closed"
    /\ wPc' = "stopped"
    /\ wErr' = "nil"
    /\ wEnd' = "return"
    /\ wLog' = Append(wLog, "close_device")
    /\ UNCHANGED <<wHs, wSeen, wPolls, wProbes, wOpts, wFree, wSocksLn, wHttpLn,
                   wLoops, wAccepted, wCancelled, wCtx, wLoopPc, wWatcher,
                   wHandlers, wStops>>
    /\ RunFrame

\* ProxyServer.Stop called once more, from outside Run: the cancel and the
\* two Close calls are repeated.
ProxyStopAgain ==
    /\ wPc \in {"stop_close", "stop_return", "stopped"}
    /\ wStops < MaxStops
    /\ wStops' = wStops + 1
    /\ wCtx' = Cancel(wCtx)
    /\ wHttpLn' = CloseListener(wHttpLn)
    /\ wSocksLn' = CloseListener(wSocksLn)
    /\ UNCHANGED <<wPc, wDev, wHs, wSeen, wPolls, wProbes, wOpts, wFree, wLoops,
                   wAccepted, wLog, wCancelled, wErr, wEnd, wLoopPc, wWatcher,
                   wHandlers>>
    /\ RunFrame

RunNext ==
    \/ EstablishConfigure
    \/ PeerHandshake
    \/ WaitHandshakePoll
    \/ WaitHandshakeDeadline
    \/ ProbeAttempt
    \/ ProbeCancelled
    \/ ProbeDeadline
    \/ ProxyStart
    \/ LoopSelect
    \/ LoopAccept
    \/ HandlerEnds
    \/ WatcherRuns
    \/ RunStop
    \/ ProxyStopCancel
    \/ ProxyStopClose
    \/ RunReturn
    \/ ProxyStopAgain

\* The positions of the run's log at which the milestone e stands.
RunAt(e) == {k \in 1..Len(wLog) : wLog[k] = e}

Configured == {x \in Sides : wOpts[x]}

\* ProxyServer.Start has run.
StartDone == RunAt("probe_ok") # {} /\ wPc # "proxy_start"

StartFailed ==
    wErr \in {"listen_socks", "listen_http", "no proxy listeners configured"}

\* C18 (as the code has it): Start fails when neither bind address is
\* configured, and then no accept loop is spawned; when at least one is
\* configured and every configured one can be bound, Start succeeds and
\* spawns an accept loop for each configured listener and no other; when a
\* configured address cannot be bound Start fails and spawns no loop.
C18_StartListeners ==
    StartDone =>
        /\ Configured = {} =>
              /\ wErr = "no proxy listeners configured"
              /\ wPc = "failed"
              /\ wLoops = {}
        /\ StartFailed => (wLoops = {} /\ wAccepted = 0)
        /\ (Configured # {} /\ \A x \in Configured : wFree[x]) =>
              /\ ~StartFailed
              /\ wLoops = Configured
        /\ (\E x \in Configured : ~wFree[x]) => StartFailed
        /\ wLoops \subseteq Configured

\* Only the SOCKS address is configured: one loop, and it accepted.
C18_Witness ==
    /\ wPc = "running" /\ Configured = {"socks"} /\ wLoops = {"socks"}
    /\ wSocksLn = "bound" /\ wHttpLn = "none"
    /\ RunAt("accept_socks") # {}

\* C18 (as stated): with at least one address configured and bindable,
\* Start succeeds.
C18_Original ==
    (StartDone /\ \E x \in Configured : wFree[x]) => ~StartFailed

\* The milestones that involve a proxy listener.
ListenerActivity ==
    RunAt("listen_socks") \cup RunAt("listen_http")
        \cup RunAt("accept_socks") \cup RunAt("accept_http")

\* C19: a proxy listener is bound and a client connection is accepted only
\* after the device was configured, brought up, the handshake wait ended
\* with success and the probe ended with success, in that order; and a
\* listener is bound only if a peer completed its handshake.
C19_ListenersAfterTunnel ==
    /\ \A k \in ListenerActivity :
          \E a \in RunAt("ipc_set"), b \in RunAt("up"),
             c \in RunAt("handshake_ok"), d \in RunAt("probe_ok") :
              a < b /\ b < c /\ c < d /\ d < k
    /\ (wSocksLn # "none" \/ wHttpLn # "none" \/ wLoops # {} \/ wAccepted > 0) =>
          /\ ListenerActivity # {}
          /\ \E i \in 1..Len(wHs) : wHs[i] # "0"

\* Both listeners bound and a connection accepted on each.
C19_Witness ==
    /\ wPc = "running"
    /\ wLog = <<"ipc_set", "up", "handshake_ok", "probe_ok", "listen_socks",
                "listen_http", "accept_http", "accept_socks">>

\* C20: once the device status reports a peer, at whatever position, whose
\* last_handshake_time_sec is not 0, the handshake wait has succeeded.
C20_AnyPeerHandshake ==
    (\E i \in 1..Len(wSeen) : wSeen[i] # "0") => RunAt("handshake_ok") # {}

\* C21: when the handshake deadline passes and no peer has completed a
\* handshake, the device is closed, Run returns the handshake-timeout error
\* to its caller, and no listener is bound.
C21_HandshakeTimeoutReturned ==
    (wErr = "handshake_deadline" /\ \A i \in 1..Len(wHs) : wHs[i] = "0") =>
        /\ wDev = "closed"
        /\ wEnd = "return"
        /\ wSocksLn = "none" /\ wHttpLn = "none"

\* C22: the device is closed only after the listeners were closed, the
\* handlers were signalled, and every forwarding handler has returned.
C22_TeardownOrder ==
    RunAt("close_device") # {} =>
        /\ RunAt("cancel") # {} /\ RunAt("close_listeners") # {}
        /\ wHandlers = 0

\* ProxyServer.Stop has cancelled the context and closed the listeners.
StopDone == wPc \in {"stop_return", "stopped"}

LoopsReturned == \A x \in wLoops : wLoopPc[x] = "returned"

\* C23: once ProxyServer.Stop has cancelled the context and closed the
\* listeners, no accept loop accepts a connection any more, and every accept
\* loop eventually returns from ListenAndServe, wherever it stood.
C23_AcceptLoopsReturn ==
    /\ [][StopDone => wAccepted' = wAccepted]_vars
    /\ StopDone ~> LoopsReturned

\* Both loops were in Accept when Stop ran, and both have returned.
C23_Witness ==
    /\ wPc = "stopped" /\ wLoops = Sides /\ LoopsReturned
    /\ wAccepted > 0

\* C24: after the cancel, every forwarding handler in flight eventually
\* returns.
C24_HandlersCancelled == wCtx ~> (wHandlers = 0)

\* Every task that Start spawned has ended and Run has returned.
Terminal == wPc = "stopped" /\ LoopsReturned /\ wWatcher = "done"

\* C25: with one Stop or with several, a run that was serving ends in the
\* same state: context cancelled, listeners closed, device closed, Run
\* returned nil; and it does end, with every spawned task terminated.
C25_StopIdempotent ==
    /\ [](wPc = "stopped" =>
            /\ wCancelled /\ wCtx
            /\ wSocksLn \in {"none", "closed"} /\ wHttpLn \in {"none", "closed"}
            /\ wDev = "closed" /\ wEnd = "return" /\ wErr = "nil")
    /\ [][wPc = "stopped" => wPc' = "stopped"]_vars
    /\ (wPc = "running" /\ wCancelled) ~> Terminal

\* Stop called twice, the second time after Run had returned.
C25_Witness == Terminal /\ wStops = 2 /\ wLoops = Sides

\* Errors of the startup that are no cancellation.
StartupErrors ==
    {"ipc_set", "up", "handshake_deadline", "probe_deadline", "listen_socks",
     "listen_http", "no proxy listeners configured"}

\* C34: once Stop was called, the wait for the handshake takes no further
\* round and does not run to its deadline: the cancel ends it.
C34_HandshakeWaitCancelled ==
    [][(wCancelled /\ wPc = "handshake")
          => /\ ~(wPc' = "handshake" /\ wPolls' = wPolls + 1)
             /\ wErr' # "handshake_deadline"]_vars

\* C26: when Stop was called, Run returns nil, unless a startup error that
\* is no cancellation ended it.
C26_CancelIsClean ==
    (wCancelled /\ wEnd # "none") =>
        \/ wEnd = "return" /\ wErr = "nil"
        \/ wErr \in StartupErrors

----------------------------------------------------------------------------
(* ListenAndServe of one server, used on its own *)

\* Accept errors the loop counts before the count stays where it is.
MaxAcceptErrors == 3

\* The servers with this loop: socks4.Server, socks5.Server, the SOCKS
\* front door and the HTTP server.
Servers == {"socks4", "socks5", "socks", "http"}

AcceptIdle ==
    /\ aPc = "idle" /\ aServer = "socks4" /\ aListener = "closed" /\ aCtx = FALSE
    /\ aConns = 0 /\ aFailed = 0 /\ aRet = "none"

\* ListenAndServe has its listener and stands at the head of the loop.
AcceptInit ==
    /\ aPc = "select"
    /\ aServer \in Servers
    /\ aListener = "open"
    /\ aCtx = FALSE
    /\ aConns = 0
    /\ aFailed = 0
    /\ aRet = "none"

\* The head of the loop: with the context done ListenAndServe returns its
\* error and the deferred function closes the listener.
AcceptLoopSelect ==
    /\ aPc = "select"
    /\ aPc' = LoopSelectNext(aCtx)
    /\ IF aCtx
       THEN aRet' = "context canceled" /\ aListener' = "closed"
       ELSE UNCHANGED <<aRet, aListener>>
    /\ UNCHANGED <<aServer, aCtx, aConns, aFailed>>
    /\ AcceptFrame

\* Accept returns: an error on a closed listener, an error or a connection
\* on an open one. After an error the loop continues; a connection gets
\* its goroutine and the loop continues.
AcceptLoopAccept ==
    /\ aPc = "accept"
    /\ \E err \in BOOLEAN :
        /\ aListener = "closed" => err
        /\ ~err => aConns < MaxAccepts
        /\ aConns' = IF err THEN aConns ELSE aConns + 1
        /\ aFailed' = IF err THEN Min(aFailed + 1, MaxAcceptErrors) ELSE aFailed
    /\ aPc' = "select"
    /\ UNCHANGED <<aServer, aListener, aCtx, aRet>>
    /\ AcceptFrame

\* The owner of the server closes its listener.
ListenerClose ==
    /\ aPc \in {"select", "accept"}
    /\ aListener = "open"
    /\ aListener' = "closed"
    /\ UNCHANGED <<aPc, aServer, aCtx, aConns, aFailed, aRet>>
    /\ AcceptFrame

\* The owner of the server cancels its context.
ContextCancel ==
    /\ aPc \in {"select", "accept"}
    /\ ~aCtx
    /\ aCtx' = TRUE
    /\ UNCHANGED <<aPc, aServer, aListener, aConns, aFailed, aRet>>
    /\ AcceptFrame

AcceptNext ==
    \/ AcceptLoopSelect
    \/ AcceptLoopAccept
    \/ ListenerClose
    \/ ContextCancel

\* C35: an Accept that fails on a closed listener is the last one:
\* ListenAndServe returns from it and does not go round the loop again.
C35_ClosedListenerEndsLoop ==
    [][(aPc = "accept" /\ aListener = "closed" /\ aPc' # aPc)
          => aPc' = "returned"]_vars

----------------------------------------------------------------------------
(* The configuration file: ParseConfig, Configuration.String, and the way a
   peer's keepalive takes from the file to the device *)

\* Texts are sequences of bytes. The bytes that matter to the parsers are
\* the blank (32), the comma (44), the dot (46), the slash (47), the colon
\* (58), the digits (48 to 57) and the letters a to f (97 to 102).

\* strings.Split(s, sep) for a separator of one byte.
RECURSIVE SplitAcc(_, _, _)
SplitAcc(s, sep, cur) ==
    IF s = <<>> THEN <<cur>>
    ELSE IF Head(s) = sep THEN <<cur>> \o SplitAcc(Tail(s), sep, <<>>)
    ELSE SplitAcc(Tail(s), sep, Append(cur, Head(s)))

Split(s, sep) == SplitAcc(s, sep, <<>>)

\* strings.TrimSpace, for the blanks that occur.
RECURSIVE TrimSpace(_)
TrimSpace(s) ==
    IF s = <<>> THEN s
    ELSE IF Head(s) = 32 THEN TrimSpace(Tail(s))
    ELSE IF s[Len(s)] = 32 THEN TrimSpace(SubSeq(s, 1, Len(s) - 1))
    ELSE s

\* strings.Join(list, sep).
RECURSIVE Join(_, _)
Join(list, sep) ==
    IF list = <<>> THEN <<>>
    ELSE IF Len(list) = 1 THEN list[1]
    ELSE list[1] \o sep \o Join(Tail(list), sep)

\* The %d verb on a number that is not negative.
RECURSIVE Itoa(_)
Itoa(n) == IF n < 10 THEN <<48 + n>> ELSE Itoa(n \div 10) \o <<48 + (n % 10)>>

\* Key.StringsWithShadows(","): the value cut at the commas, each piece
\* without the blanks around it.
StringsWithShadows(value) ==
    LET parts == Split(value, 44)
    IN  [i \in 1..Len(parts) |-> TrimSpace(parts[i])]

\* The fields of a dotted quad: four of them, each one to three digits with
\* no leading zero, each at most 255.
IPv4Field(f) ==
    /\ Len(f) \in 1..3
    /\ ~Atoi(f).err
    /\ (Len(f) > 1 => f[1] # 48)
    /\ Atoi(f).n <= 255

NoAddr == [is4 |-> TRUE, ip |-> <<>>]

parseIPv4(s) ==
    LET fields == Split(s, 46)
    IN  IF Len(fields) = 4 /\ \A i \in 1..4 : IPv4Field(fields[i])
        THEN [err |-> FALSE,
              addr |-> [is4 |-> TRUE, ip |-> [i \in 1..4 |-> Atoi(fields[i]).n]]]
        ELSE [err |-> TRUE, addr |-> NoAddr]

HexDigit(c) == c \in 48..57 \/ c \in 97..102

HexValue(c) == IF c \in 48..57 THEN c - 48 ELSE c - 87

RECURSIVE HexAcc(_, _)
HexAcc(str, acc) ==
    IF str = <<>> THEN acc ELSE HexAcc(Tail(str), acc * 16 + HexValue(Head(str)))

\* The IPv6 texts of the form ::h, h a group of at most four hex digits; the
\* address is kept as the value of its last group.
parseIPv6(s) ==
    LET rest == SubSeq(s, 3, Len(s))
    IN  IF /\ Len(s) >= 2 /\ s[1] = 58 /\ s[2] = 58
           /\ Len(rest) <= 4
           /\ \A i \in 1..Len(rest) : HexDigit(rest[i])
        THEN [err |-> FALSE, addr |-> [is4 |-> FALSE, ip |-> <<HexAcc(rest, 0)>>]]
        ELSE [err |-> TRUE, addr |-> NoAddr]

\* netip.ParseAddr: the first dot or colon decides the family.
RECURSIVE ParseAddrFrom(_, _)
ParseAddrFrom(s, i) ==
    IF i > Len(s) THEN [err |-> TRUE, addr |-> NoAddr]
    ELSE IF s[i] = 46 THEN parseIPv4(s)
    ELSE IF s[i] = 58 THEN parseIPv6(s)
    ELSE ParseAddrFrom(s, i + 1)

ParseAddr(s) == ParseAddrFrom(s, 1)

RECURSIVE HexText(_)
HexText(n) ==
    LET d == n % 16
        c == IF d < 10 THEN 48 + d ELSE 87 + d
    IN  IF n < 16 THEN <<c>> ELSE HexText(n \div 16) \o <<c>>

\* Addr.String.
AddrString(a) ==
    IF a.is4 THEN Join([i \in 1..4 |-> Itoa(a.ip[i])], <<46>>)
    ELSE IF a.ip[1] = 0 THEN <<58, 58>>
    ELSE <<58, 58>> \o HexText(a.ip[1])

\* netip.PrefixFrom.
PrefixFrom(addr, bits) == [addr |-> addr, bits |-> bits]

NoPrefix == PrefixFrom(NoAddr, 0)

BitLen(addr) == IF addr.is4 THEN 32 ELSE 128

LastIndexByte(s, c) ==
    IF \E i \in 1..Len(s) : s[i] = c
    THEN CHOOSE i \in 1..Len(s) : s[i] = c /\ \A j \in (i + 1)..Len(s) : s[j] # c
    ELSE 0

\* netip.ParsePrefix: the text is cut at its last slash; an address before
\* it, a number of bits after it that has no leading zero and is at most
\* the length of the address.
ParsePrefix(s) ==
    LET i == LastIndexByte(s, 47)
        ip == ParseAddr(SubSeq(s, 1, i - 1))
        bitsStr == SubSeq(s, i + 1, Len(s))
        bits == Atoi(bitsStr)
    IN  IF i = 0 \/ ip.err THEN [err |-> TRUE, prefix |-> NoPrefix]
        ELSE IF bits.err \/ (Len(bitsStr) > 1 /\ bitsStr[1] = 48)
        THEN [err |-> TRUE, prefix |-> NoPrefix]
        ELSE IF bits.n > BitLen(ip.addr) THEN [err |-> TRUE, prefix |-> NoPrefix]
        ELSE [err |-> FALSE, prefix |-> PrefixFrom(ip.addr, bits.n)]

\* Prefix.String.
PrefixString(p) == AddrString(p.addr) \o <<47>> \o Itoa(p.bits)

\* A key as a text: its encoding, the number of bytes it stands for, and a
\* name for those bytes.
KeyText(enc, n, body) == [enc |-> enc, n |-> n, body |-> body]

EmptyString == KeyText("", 0, "")

KeyLen == 32

ZeroKeyHex == KeyText("hex", KeyLen, "zero")

\* EncodeBase64ToHex: the text decodes as base64, to exactly 32 bytes, and
\* the bytes are written in hex.
EncodeBase64ToHex(key) ==
    IF key.enc # "base64" THEN [err |-> TRUE, key |-> EmptyString]
    ELSE IF key.n # KeyLen THEN [err |-> TRUE, key |-> EmptyString]
    ELSE [err |-> FALSE, key |-> KeyText("hex", key.n, key.body)]

\* EncodeHexToBase64: the text decodes as hex, and the bytes are written in
\* base64.
EncodeHexToBase64(key) ==
    IF key.enc # "hex" THEN [err |-> TRUE, key |-> EmptyString]
    ELSE [err |-> FALSE, key |-> KeyText("base64", key.n, key.body)]

\* Section.GetKey on a key the section may not have: no value or one.
Has(opt) == opt # <<>>

Val(opt) == opt[1]

\* uint32(value), for the values that occur: none is negative, and all
\* are below 2^31.
Uint32(value) == value

\* What the parsers return when they return an error.
NoInterface ==
    [PrivateKey |-> EmptyString, Addresses |-> <<>>, DNS |-> <<>>, MTU |-> 0,
     FwMark |-> 0]

\* One entry of Address in the Prefix variant: a prefix, and if it is none,
\* an address, which is given the full length of its family.
AddressEntry(entry) ==
    LET str == TrimSpace(entry)
        prefix == ParsePrefix(str)
        addr == ParseAddr(str)
    IN  IF ~prefix.err THEN prefix
        ELSE IF addr.err THEN [err |-> TRUE, prefix |-> NoPrefix]
        ELSE IF addr.addr.is4
        THEN [err |-> FALSE, prefix |-> PrefixFrom(addr.addr, 32)]
        ELSE [err |-> FALSE, prefix |-> PrefixFrom(addr.addr, 128)]

\* The keys of [Interface] after Address, the same in both variants but for
\* FwMark, which only the Prefix variant reads.
InterfaceRest(iface, addresses, withFwMark) ==
    LET priv == EncodeBase64ToHex(iface.PrivateKey)
        dnsStrs == IF Has(iface.DNS) THEN StringsWithShadows(Val(iface.DNS)) ELSE <<>>
        dns == [i \in 1..Len(dnsStrs) |-> ParseAddr(dnsStrs[i])]
        mtu == IF Has(iface.MTU) THEN Atoi(Val(iface.MTU)) ELSE [err |-> FALSE, n |-> 0]
        mark == IF withFwMark /\ Has(iface.FwMark) THEN Atoi(Val(iface.FwMark))
                ELSE [err |-> FALSE, n |-> 0]
    IN  IF \/ priv.err
           \/ \E i \in 1..Len(dns) : dns[i].err
           \/ mtu.err
           \/ mark.err
        THEN [err |-> TRUE, device |-> NoInterface]
        ELSE [err |-> FALSE,
              device |-> [PrivateKey |-> priv.key,
                          Addresses |-> addresses,
                          DNS |-> [i \in 1..Len(dns) |-> dns[i].addr],
                          MTU |-> mtu.n,
                          FwMark |-> Uint32(mark.n)]]

\* ParseInterface with Addresses []netip.Prefix.
ParseInterface(file) ==
    IF Len(file.ifaces) # 1 THEN [err |-> TRUE, device |-> NoInterface]
    ELSE
        LET iface == file.ifaces[1]
            strs == StringsWithShadows(iface.Address)
            parsed == [i \in 1..Len(strs) |-> AddressEntry(strs[i])]
        IN  IF \E i \in 1..Len(parsed) : parsed[i].err
            THEN [err |-> TRUE, device |-> NoInterface]
            ELSE InterfaceRest(iface,
                               [i \in 1..Len(parsed) |-> parsed[i].prefix], TRUE)

\* ParseInterface with Addresses []netip.Addr: every entry has to be a
\* prefix, and its address is what is kept.
ParseInterfaceAddr(file) ==
    IF Len(file.ifaces) # 1 THEN [err |-> TRUE, device |-> NoInterface]
    ELSE
        LET iface == file.ifaces[1]
            strs == StringsWithShadows(iface.Address)
            parsed == [i \in 1..Len(strs) |-> ParsePrefix(strs[i])]
        IN  IF \E i \in 1..Len(parsed) : parsed[i].err
            THEN [err |-> TRUE, device |-> NoInterface]
            ELSE InterfaceRest(iface,
                               [i \in 1..Len(parsed) |-> parsed[i].prefix.addr],
                               FALSE)

\* One [Peer] section.
ParsePeer(section) ==
    LET pub == IF Has(section.PublicKey)
               THEN EncodeBase64ToHex(Val(section.PublicKey))
               ELSE [err |-> FALSE, key |-> EmptyString]
        psk == IF Has(section.PreSharedKey)
               THEN EncodeBase64ToHex(Val(section.PreSharedKey))
               ELSE [err |-> FALSE, key |-> ZeroKeyHex]
        keep == IF Has(section.PersistentKeepalive)
                THEN Atoi(Val(section.PersistentKeepalive))
                ELSE [err |-> FALSE, n |-> 0]
        strs == IF Has(section.AllowedIPs)
                THEN StringsWithShadows(Val(section.AllowedIPs)) ELSE <<>>
        ips == [i \in 1..Len(strs) |-> ParsePrefix(strs[i])]
    IN  [err |-> \/ pub.err \/ psk.err \/ keep.err
                 \/ \E i \in 1..Len(ips) : ips[i].err,
         peer |-> [PublicKey |-> pub.key,
                   PreSharedKey |-> psk.key,
                   Endpoint |-> IF Has(section.Endpoint) THEN Val(section.Endpoint)
                                ELSE "",
                   KeepAlive |-> keep.n,
                   AllowedIPs |-> [i \in 1..Len(ips) |-> ips[i].prefix]]]

\* ParsePeers.
ParsePeers(file) ==
    LET parsed == [i \in 1..Len(file.peers) |-> ParsePeer(file.peers[i])]
    IN  IF Len(file.peers) < 1 THEN [err |-> TRUE, peers |-> <<>>]
        ELSE IF \E i \in 1..Len(parsed) : parsed[i].err
        THEN [err |-> TRUE, peers |-> <<>>]
        ELSE [err |-> FALSE, peers |-> [i \in 1..Len(parsed) |-> parsed[i].peer]]

NoConf == [Interface |-> NoInterface, Peers |-> <<>>]

\* ParseConfig on a file that loads, with the ParseInterface of the build.
ParseConfig(variant, file) ==
    LET iface == IF variant = "addr" THEN ParseInterfaceAddr(file)
                 ELSE ParseInterface(file)
        peers == ParsePeers(file)
    IN  IF iface.err \/ peers.err THEN [err |-> TRUE, conf |-> NoConf]
        ELSE [err |-> FALSE,
              conf |-> [Interface |-> iface.device, Peers |-> peers.peers]]

Opt(present, value) == IF present THEN <<value>> ELSE <<>>

\* The [Peer] section Configuration.String writes for a peer.
PeerString(peer) ==
    [PublicKey |-> Opt(peer.PublicKey # EmptyString,
                       EncodeHexToBase64(peer.PublicKey).key),
     PreSharedKey |-> Opt(peer.PreSharedKey # EmptyString
                              /\ peer.PreSharedKey # ZeroKeyHex,
                          EncodeHexToBase64(peer.PreSharedKey).key),
     AllowedIPs |-> Opt(Len(peer.AllowedIPs) > 0,
                        Join([i \in 1..Len(peer.AllowedIPs) |->
                                  PrefixString(peer.AllowedIPs[i])],
                             <<44, 32>>)),
     Endpoint |-> Opt(peer.Endpoint # "", peer.Endpoint),
     PersistentKeepalive |-> Opt(peer.KeepAlive # 0, Itoa(peer.KeepAlive))]

NoFile == [ifaces |-> <<>>, peers |-> <<>>]

\* Configuration.String, as the sections the text loads to: one [Interface]
\* with PrivateKey, Address, DNS and MTU, then one [Peer] for each peer.
ConfigurationString(c) ==
    LET i == c.Interface
    IN  IF \/ i.PrivateKey # EmptyString /\ EncodeHexToBase64(i.PrivateKey).err
           \/ \E k \in 1..Len(c.Peers) :
                 \/ /\ c.Peers[k].PublicKey # EmptyString
                    /\ EncodeHexToBase64(c.Peers[k].PublicKey).err
                 \/ /\ c.Peers[k].PreSharedKey \notin {EmptyString, ZeroKeyHex}
                    /\ EncodeHexToBase64(c.Peers[k].PreSharedKey).err
        THEN [err |-> TRUE, file |-> NoFile]
        ELSE [err |-> FALSE,
              file |->
                [ifaces |->
                   <<[PrivateKey |-> IF i.PrivateKey # EmptyString
                                     THEN EncodeHexToBase64(i.PrivateKey).key
                                     ELSE EmptyString,
                      Address |-> Join([k \in 1..Len(i.Addresses) |->
                                            PrefixString(i.Addresses[k])],
                                       <<44, 32>>),
                      DNS |-> Opt(Len(i.DNS) > 0,
                                  Join([k \in 1..Len(i.DNS) |-> AddrString(i.DNS[k])],
                                       <<44, 32>>)),
                      MTU |-> Opt(i.MTU # 0, Itoa(i.MTU)),
                      FwMark |-> <<>>]>>,
                 peers |-> [k \in 1..Len(c.Peers) |-> PeerString(c.Peers[k])]]]

\* The minimum Run gives every peer.
MinKeepAlive == 5

DefaultMTU == 1330

DefaultResolver == [is4 |-> TRUE, ip |-> <<1, 1, 1, 1>>]

\* The keepalive Run's loop over the peers gives a peer.
RunKeepAlive(configured) == MinKeepAlive

\* Run before createWireguardDevice: the MTU, the resolver, and for every
\* peer the keepalive and the endpoint, resolved if it resolves.
RunPrepare(c, resolved) ==
    [Interface |-> [c.Interface EXCEPT !.MTU = DefaultMTU,
                                       !.DNS = <<DefaultResolver>>],
     Peers |-> [k \in 1..Len(c.Peers) |->
                  [c.Peers[k] EXCEPT
                      !.KeepAlive = RunKeepAlive(c.Peers[k].KeepAlive),
                      !.Endpoint = IF resolved[k] THEN "resolved"
                                   ELSE c.Peers[k].Endpoint]]]

\* The lines establishWireguard writes for the peers, allowed_ip left out.
RECURSIVE PeerRequest(_, _)
PeerRequest(peers, k) ==
    IF k > Len(peers) THEN <<>>
    ELSE <<Line("public_key", peers[k].PublicKey.body),
           Line("persistent_keepalive_interval", peers[k].KeepAlive),
           Line("preshared_key", peers[k].PreSharedKey.body),
           Line("endpoint", peers[k].Endpoint)>> \o PeerRequest(peers, k + 1)

\* The inputs: files that load, with the sections and keys the parsers read.
MaxInterfaces == 2

\* Values of Address: a bare IPv4 address, an IPv4 prefix, a bare IPv6
\* address, an IPv6 prefix followed by a bare address, an address with a
\* field above 255 and a prefix longer than its address.
AddressTexts ==
    {<<49, 46, 50, 46, 51, 46, 52>>,
     <<49, 46, 50, 46, 51, 46, 52, 47, 50, 52>>,
     <<58, 58, 49>>,
     <<58, 58, 49, 47, 54, 52, 44, 32, 49, 46, 50, 46, 51, 46, 52>>,
     <<49, 48, 46, 48, 46, 48, 46, 50, 53, 54>>,
     <<49, 46, 50, 46, 51, 46, 52, 47, 51, 51>>}

PrivateKeyTexts == {KeyText("base64", KeyLen, "a"), KeyText("base64", 16, "a")}

\* DNS and MTU, absent or present: 8.8.8.8, ::1 and 1420.
DnsMtuTexts ==
    {<<<<>>, <<>>>>,
     <<<<<<56, 46, 56, 46, 56, 46, 56, 44, 32, 58, 58, 49>>>>,
       <<<<49, 52, 50, 48>>>>>>}

\* FwMark, absent or 51820.
FwMarkTexts == {<<>>, <<<<53, 49, 56, 50, 48>>>>}

InterfaceSections ==
    {[Address |-> a, PrivateKey |-> k, DNS |-> d[1], MTU |-> d[2], FwMark |-> f] :
        a \in AddressTexts, k \in PrivateKeyTexts, d \in DnsMtuTexts,
        f \in FwMarkTexts}

PublicKeyTexts ==
    {<<>>, <<KeyText("base64", KeyLen, "b")>>, <<KeyText("base64", 31, "b")>>}

\* PersistentKeepalive, absent, 3 or 25.
KeepaliveTexts == {<<>>, <<<<51>>>>, <<<<50, 53>>>>}

\* PreSharedKey, AllowedIPs and Endpoint: all absent, or the routes
\* 0.0.0.0/0, ::/0 and an endpoint with a key of zeros or another key.
RouteTexts ==
    {<<<<>>, <<>>, <<>>>>,
     <<<<KeyText("base64", KeyLen, "zero")>>, <<<<48, 46, 48, 46, 48, 46, 48, 47, 48, 44, 32, 58, 58, 47, 48>>>>, <<"host:51820">>>>,
     <<<<KeyText("base64", KeyLen, "c")>>, <<<<48, 46, 48, 46, 48, 46, 48, 47, 48, 44, 32, 58, 58, 47, 48>>>>, <<"host:51820">>>>}

PeerSections ==
    {[PublicKey |-> p, PreSharedKey |-> r[1], PersistentKeepalive |-> k,
      AllowedIPs |-> r[2], Endpoint |-> r[3]] :
        p \in PublicKeyTexts, k \in KeepaliveTexts, r \in RouteTexts}

\* A second section of a file is this one.
OtherInterface ==
    [Address |-> <<49, 48, 46, 48, 46, 48, 46, 50, 47, 51, 50>>, PrivateKey |-> KeyText("base64", KeyLen, "a"),
     DNS |-> <<>>, MTU |-> <<>>, FwMark |-> <<>>]

OtherPeer ==
    [PublicKey |-> <<KeyText("base64", KeyLen, "d")>>, PreSharedKey |-> <<>>,
     PersistentKeepalive |-> <<>>, AllowedIPs |-> <<>>, Endpoint |-> <<>>]

ConfigFiles ==
    {[ifaces |-> IF n = 0 THEN <<>>
                 ELSE <<i>> \o [j \in 1..(n - 1) |-> OtherInterface],
      peers |-> IF m = 0 THEN <<>>
                ELSE <<p>> \o [j \in 1..(m - 1) |-> OtherPeer]] :
        n \in 0..MaxInterfaces, i \in InterfaceSections,
        m \in 0..MaxPeers, p \in PeerSections}

ConfigIdle ==
    /\ gPc = "idle" /\ gVariant = "prefix" /\ gFile = NoFile /\ gConf = NoConf
    /\ gText = NoFile /\ gConf2 = NoConf /\ gIpc = <<>>

\* A file, and the ParseInterface the build has.
ConfigInit ==
    /\ gPc = "file"
    /\ gVariant \in {"addr", "prefix"}
    /\ gFile \in ConfigFiles
    /\ gConf = NoConf
    /\ gText = NoFile
    /\ gConf2 = NoConf
    /\ gIpc = <<>>

\* main: ParseConfig on the file.
ParseFile ==
    /\ gPc = "file"
    /\ LET r == ParseConfig(gVariant, gFile)
       IN  /\ gPc' = IF r.err THEN "rejected" ELSE "parsed"
           /\ gConf' = r.conf
    /\ UNCHANGED <<gVariant, gFile, gText, gConf2, gIpc>>
    /\ ConfigFrame

\* Configuration.String on what ParseConfig returned.
EmitString ==
    /\ gPc = "parsed"
    /\ gVariant = "prefix"
    /\ LET r == ConfigurationString(gConf)
       IN  /\ gPc' = IF r.err THEN "emit_error" ELSE "emitted"
           /\ gText' = r.file
    /\ UNCHANGED <<gVariant, gFile, gConf, gConf2, gIpc>>
    /\ ConfigFrame

\* ParseConfig on the text that was written.
ParseEmitted ==
    /\ gPc = "emitted"
    /\ LET r == ParseConfig(gVariant, gText)
       IN  /\ gPc' = IF r.err THEN "reparse_error" ELSE "reparsed"
           /\ gConf2' = r.conf
    /\ UNCHANGED <<gVariant, gFile, gConf, gText, gIpc>>
    /\ ConfigFrame

\* Run up to createWireguardDevice, on what ParseConfig returned.
RunConfigure ==
    /\ gPc = "parsed"
    /\ \E resolved \in [1..Len(gConf.Peers) -> BOOLEAN] :
          gConf' = RunPrepare(gConf, resolved)
    /\ gPc' = "prepared"
    /\ UNCHANGED <<gVariant, gFile, gText, gConf2, gIpc>>
    /\ ConfigFrame

\* establishWireguard writes the request. The first eight characters of a
\* peer's public key are logged first, and a key that is empty has none.
EstablishRequest ==
    /\ gPc = "prepared"
    /\ IF \E k \in 1..Len(gConf.Peers) : gConf.Peers[k].PublicKey = EmptyString
       THEN gPc' = "panic" /\ gIpc' = gIpc
       ELSE gPc' = "written" /\ gIpc' = PeerRequest(gConf.Peers, 1)
    /\ UNCHANGED <<gVariant, gFile, gConf, gText, gConf2>>
    /\ ConfigFrame

ConfigNext ==
    \/ ParseFile
    \/ EmitString
    \/ ParseEmitted
    \/ RunConfigure
    \/ EstablishRequest


(* Claims on the configuration file *)

\* The file has come through ParseConfig, whatever was done with it after.
Parsed == gPc \notin {"idle", "file", "rejected"}

Rejected == gPc = "rejected"

\* An entry of Address that is a bare IP or a CIDR prefix.
BareIP(entry) == ~ParseAddr(entry).err

CIDRPrefix(entry) == ~ParsePrefix(entry).err

\* The prefix the entry stands for.
PrefixOfEntry(entry) ==
    IF BareIP(entry)
    THEN PrefixFrom(ParseAddr(entry).addr, BitLen(ParseAddr(entry).addr))
    ELSE ParsePrefix(entry).prefix

AddressEntries == StringsWithShadows(gFile.ifaces[1].Address)

\* Nothing but Address can make ParseConfig reject the file.
RestIsValid ==
    /\ Len(gFile.ifaces) = 1
    /\ ~InterfaceRest(gFile.ifaces[1], <<>>, TRUE).err
    /\ ~ParsePeers(gFile).err

AddressesAreValid ==
    \A i \in 1..Len(AddressEntries) :
        BareIP(AddressEntries[i]) \/ CIDRPrefix(AddressEntries[i])

\* C27: a file whose Address entries are all bare IPs or CIDR prefixes is
\* accepted, and the interface has for each entry its prefix: /32 for a
\* bare IPv4 address, /128 for a bare IPv6 address, the prefix itself
\* otherwise.
C27_BareIPAccepted ==
    (gPc \in {"parsed", "rejected"} /\ RestIsValid /\ AddressesAreValid) =>
        /\ gPc = "parsed"
        /\ gConf.Interface.Addresses =
              [i \in 1..Len(AddressEntries) |-> PrefixOfEntry(AddressEntries[i])]

\* The fields of two peers the round trip is to keep.
SamePeer(p, q) ==
    /\ p.PublicKey = q.PublicKey
    /\ p.PreSharedKey = q.PreSharedKey
    /\ p.Endpoint = q.Endpoint
    /\ p.KeepAlive = q.KeepAlive
    /\ p.AllowedIPs = q.AllowedIPs

SameInterfaceButFwMark(i, j) ==
    /\ i.PrivateKey = j.PrivateKey
    /\ i.Addresses = j.Addresses
    /\ i.DNS = j.DNS
    /\ i.MTU = j.MTU

Equivalent(c, d) ==
    /\ SameInterfaceButFwMark(c.Interface, d.Interface)
    /\ c.Interface.FwMark = d.Interface.FwMark
    /\ Len(c.Peers) = Len(d.Peers)
    /\ \A k \in 1..Len(c.Peers) : SamePeer(c.Peers[k], d.Peers[k])

\* C28: what ParseConfig accepted is written by Configuration.String
\* without error, the text is accepted by ParseConfig, and the
\* Configuration it gives is equivalent to the first.
C28_RoundTrip ==
    /\ gPc \notin {"emit_error", "reparse_error"}
    /\ gPc = "reparsed" => Equivalent(gConf, gConf2)

\* A key of the Configuration that is the hex form of exactly 32 bytes.
HexKey(key) == key.enc = "hex" /\ key.n = KeyLen

\* A key of the file that is not 32 bytes of base64.
BadKey(opt) == Has(opt) /\ EncodeBase64ToHex(Val(opt)).err

\* What the claim has rejected: no or several [Interface] sections, no
\* [Peer], a key that is not 32 bytes, a [Peer] without PublicKey.
MustBeRejected(file) ==
    \/ Len(file.ifaces) # 1
    \/ Len(file.peers) < 1
    \/ \E i \in 1..Len(file.ifaces) : BadKey(<<file.ifaces[i].PrivateKey>>)
    \/ \E k \in 1..Len(file.peers) :
          \/ BadKey(file.peers[k].PublicKey)
          \/ BadKey(file.peers[k].PreSharedKey)
          \/ ~Has(file.peers[k].PublicKey)

\* C29: what ParseConfig returns without error comes from a file with one
\* [Interface] and at least one [Peer], and its keys are hex forms of 32
\* bytes; a file that has to be rejected is rejected.
C29_ParsedIsWellFormed ==
    /\ gPc = "parsed" =>
          /\ Len(gFile.ifaces) = 1
          /\ Len(gConf.Peers) >= 1
          /\ HexKey(gConf.Interface.PrivateKey)
          /\ \A k \in 1..Len(gConf.Peers) :
                HexKey(gConf.Peers[k].PublicKey) /\ HexKey(gConf.Peers[k].PreSharedKey)
    /\ (gPc \in {"parsed", "rejected"} /\ MustBeRejected(gFile)) => Rejected

\* The lines of the request that carry a keepalive, peer by peer.
KeepAliveLines ==
    SelectSeq(gIpc, LAMBDA l : l.key = "persistent_keepalive_interval")

\* The keepalive the file gives peer k: 0 when it gives none.
ConfiguredKeepAlive(k) ==
    IF Has(gFile.peers[k].PersistentKeepalive)
    THEN Atoi(Val(gFile.peers[k].PersistentKeepalive)).n
    ELSE 0

\* C30: the keepalive written to the device for a peer is the one of the
\* file when that is at least 5, and 5 otherwise.
C30_KeepAliveKept ==
    gPc = "written" =>
        \A k \in 1..Len(gFile.peers) :
            KeepAliveLines[k].value =
                IF ConfiguredKeepAlive(k) >= MinKeepAlive
                THEN ConfiguredKeepAlive(k)
                ELSE MinKeepAlive

----------------------------------------------------------------------------
(* Specifications *)

Init ==
    SocksInit /\ HandlerIdle /\ HttpIdle /\ RelayIdle /\ BindIdle /\ RunIdle
    /\ ConfigIdle /\ AcceptIdle

Next == SocksNext

\* One SOCKS client connection through the front door.
Spec == Init /\ [][Next]_vars

\* One run of the forwarding handler.
InitHandler ==
    HandlerInit /\ SocksIdle /\ HttpIdle /\ RelayIdle /\ BindIdle /\ RunIdle
    /\ ConfigIdle /\ AcceptIdle

SpecHandler == InitHandler /\ [][HandlerNext]_vars

\* One client connection of the HTTP proxy.
InitHttp ==
    HttpInit /\ SocksIdle /\ HandlerIdle /\ RelayIdle /\ BindIdle /\ RunIdle
    /\ ConfigIdle /\ AcceptIdle

SpecHttp == InitHttp /\ [][HttpNext]_vars

\* One UDP association served by the embedded relay.
InitRelay ==
    RelayInit /\ SocksIdle /\ HandlerIdle /\ HttpIdle /\ BindIdle /\ RunIdle
    /\ ConfigIdle /\ AcceptIdle

SpecRelay == InitRelay /\ [][RelayNext]_vars

\* The same, with ReadFrom and WriteTo returning once they can.
SpecRelayLive ==
    /\ InitRelay
    /\ [][RelayNext]_vars
    /\ WF_vars(RelayReadError)
    /\ WF_vars(RelayWriteTo)

\* One BIND request served by an embedded bind handler.
InitBind ==
    BindInit /\ SocksIdle /\ HandlerIdle /\ HttpIdle /\ RelayIdle /\ RunIdle
    /\ ConfigIdle /\ AcceptIdle

SpecBind == InitBind /\ [][BindNext]_vars

\* One run of WireSocks from the configuration of the device on.
InitRun ==
    RunInit /\ SocksIdle /\ HandlerIdle /\ HttpIdle /\ RelayIdle /\ BindIdle
    /\ ConfigIdle /\ AcceptIdle

SpecRun == InitRun /\ [][RunNext]_vars

\* The steps the program takes on its own are taken: the loops' select, an
\* Accept on a listener that is closed, the watcher, and Run's way through
\* ProxyServer.Stop to its return. Nothing is assumed of clients and peers.
SpecRunLive ==
    /\ SpecRun
    /\ \A x \in Sides :
          /\ WF_vars(LoopSelectOf(x))
          /\ WF_vars(LoopAcceptOf(x) /\ Listener(x) # "bound")
    /\ WF_vars(WatcherRuns)
    /\ WF_vars(ProxyStopCancel)
    /\ WF_vars(ProxyStopClose)
    /\ WF_vars(RunReturn)

\* One configuration file, parsed, then written and parsed again, or taken
\* by Run to the request for the device.
InitConfig ==
    ConfigInit /\ SocksIdle /\ HandlerIdle /\ HttpIdle /\ RelayIdle /\ BindIdle
    /\ RunIdle /\ AcceptIdle

SpecConfig == InitConfig /\ [][ConfigNext]_vars

\* One server's ListenAndServe, with an owner that closes the listener or
\* cancels the context when it likes.
InitAccept ==
    AcceptInit /\ SocksIdle /\ HandlerIdle /\ HttpIdle /\ RelayIdle /\ BindIdle
    /\ RunIdle /\ ConfigIdle

SpecAccept == InitAccept /\ [][AcceptNext]_vars

====
